---- MODULE Spec2Model ----
(***************************************************************************)
(* Streaming point-cloud-to-mesh pipeline of the MRS3D plugin:             *)
(*   - point store, memory manager and uniform-grid spatial index          *)
(*   - spatial queries (radius, k-nearest)                                 *)
(*   - reconstruction algorithms (fan triangulation, marching cubes)       *)
(*   - asynchronous mesh generation jobs                                   *)
(* Each part has its own specification over the shared variables.          *)
(***************************************************************************)
EXTENDS Integers, Sequences, FiniteSets, Bags, TLC

(***************************************************************************)
(* Bounds of the model                                                     *)
(***************************************************************************)
MaxTime == 2            \* the clock runs over 0..MaxTime
MaxStored == 2          \* inserts are accepted while the store holds fewer points
MaxIndexed == 3         \* ... and the index holds fewer points (it can run ahead of the store)
MaxCapacity == 2        \* SetMaxPoints draws from 0..MaxCapacity
MaxAge == 1             \* SetMaxPointAge draws from 0..MaxAge
MaxCleanupInterval == 1 \* SetCleanupInterval draws from 1..MaxCleanupInterval
MaxBatch == 2           \* AddBitmapPoints takes batches of up to MaxBatch points
MaxCoord == 1           \* indexed points and query centres have x in -MaxCoord..MaxCoord
MaxCellSize == 2        \* the index is initialised with a cell size in 1..MaxCellSize
MaxRadius == 2          \* query radii and distance limits run over 0..MaxRadius
MaxK == 2               \* k-nearest queries ask for 0..MaxK points
MaxQueryPoints == 3     \* the queried index holds up to MaxQueryPoints points
MaxFanPoints == 4       \* fan reconstruction takes up to MaxFanPoints points
MaxPathPoints == 3      \* the two paths of a reconstruction are compared on up to MaxPathPoints points
MaxOverrun == 1         \* triangles a loop can emit from memory past the end of TriTable
MaxGarbage == 1         \* an uninitialised read yields one of the values 0..MaxGarbage
MaxMCPoints == 3        \* isosurface extraction takes up to MaxMCPoints points
MaxAtIso == 1           \* corners of a processed cube whose density equals the iso-value
MaxRuns == 2            \* GenerateFromBitmapPoints is run up to MaxRuns times on the same input
MaxJobs == 1            \* job ids are handed out while the id counter is at most MaxJobs
MaxWorkers == 1         \* the machine gives the manager 1..MaxWorkers worker threads

VARIABLES
    \* ---- UBitmapPointStorage
    BitmapPoints,            \* TArray<FBitmapPoint>, insertion order
    \* ---- UBitmapPointSpatialIndex
    SpatialGrid,             \* TMap<FIntVector, FSpatialCell>
    TotalPointCount,
    CellSize,
    \* ---- UBitmapPointMemoryManager
    MaxBitmapPoints,
    MaxPointAgeSeconds,
    bAutoCleanupEnabled,
    LastCleanupTime,
    CleanupIntervalSeconds,
    \* ---- UMRBitmapMapper
    bRealTimeUpdatesEnabled,
    \* ---- environment and bookkeeping
    now,                     \* FPlatformTime::Seconds()
    lastOp,                  \* the operation that ran last
    lastEvicted,             \* <<points removed by age, points removed by capacity>> by lastOp
    desyncBefore,            \* the index differed from the store when lastOp started
    lastNotified,            \* how often lastOp broadcast OnBitmapPointsChanged / OnSpatialIndexUpdated
    lastQuery,               \* the last spatial query: its arguments and its result
    Points,                  \* the point list handed to a reconstruction algorithm
    meshSync,                \* mesh section built by UProceduralGenerator::GenerateMesh
    meshAsync,               \* FMeshGenerationResult of a Mesh task
    Cube,                    \* the 8 corner voxels handed to ProcessCube
    cubeResult,              \* what ProcessCube returned for Cube (see Returned)
    mcRuns,                  \* what successive GenerateFromBitmapPoints calls on Points returned
    \* ---- UMeshGenerationManager
    NextJobID,               \* FThreadSafeCounter
    ActiveJobs,              \* TMap<int32, FMeshGenerationJob>
    CompletedJobs,           \* TMap<int32, FMeshGenerationJob>
    MaxWorkerThreads,
    ManagerLastCleanupTime,  \* UMeshGenerationManager::LastCleanupTime
    lastInfo,                \* what the last GetJobInfo call returned (see Observed)
    lastSubmit,              \* what the last SubmitMeshGenerationJob call did and returned
    issuedIDs,               \* the job ids returned by accepted submissions, in order
    lastResult,              \* what the last GetJobResult call returned
    UnlockedAccesses,        \* the accesses to the job registry made without JobsMutex so far
    \* ---- UMRTrackingStateManager
    SessionInfo,             \* FMRSessionInfo
    StateHistory,            \* TArray<FTrackingStateEntry>
    TotalConfidence,
    ConfidenceSamples,
    trackLog,                \* what each UpdateTrackingState call since the last reset did
    ExcellentQualityThreshold,   \* the quality thresholds, in tenths
    NormalQualityThreshold,
    LimitedQualityThreshold,
    \* ---- UProceduralGenerator
    GenerationType,
    bEnableAsyncGeneration,
    MeshGenerationManager,   \* whether the pointer to the manager is set
    AsyncGenerationThreshold,
    ActiveAsyncJobs,         \* TArray<int32>
    CachedPoints,
    PreLossGeometrySnapshot,
    MeshSections,            \* the mesh sections of ProceduralMesh: the length of each index buffer
    bMeshVisible,            \* ProceduralMesh->SetVisibility
    bIsTrackingLost,
    CurrentTrackingQuality,  \* in hundredths
    UpdateInterval,          \* in tenths of a second
    bAutoUpdate,
    bFreezeMeshOnTrackingLoss,
    bUseSpatialAnchors,
    bAutoRecoverFromTrackingLoss,
    MarchingCubesConfig,     \* FMarchingCubesConfig of the generator
    lastGen                  \* what the last call on the generator did and returned

\* the store, the index and the memory manager, but for the clock
storeState == <<BitmapPoints, SpatialGrid, TotalPointCount, CellSize,
                MaxBitmapPoints, MaxPointAgeSeconds, bAutoCleanupEnabled,
                LastCleanupTime, CleanupIntervalSeconds, bRealTimeUpdatesEnabled,
                lastOp, lastEvicted, desyncBefore, lastNotified>>

storeVars == <<storeState, now>>

queryVars == <<lastQuery>>

reconVars == <<Points, meshSync, meshAsync, Cube, cubeResult, mcRuns>>

\* what is recorded of the submissions
submitVars == <<lastSubmit, issuedIDs>>

jobVars == <<NextJobID, ActiveJobs, CompletedJobs, MaxWorkerThreads,
             ManagerLastCleanupTime, lastInfo, submitVars,
             lastResult, UnlockedAccesses>>

trackConfig == <<ExcellentQualityThreshold, NormalQualityThreshold, LimitedQualityThreshold>>

trackVars == <<SessionInfo, StateHistory, TotalConfidence, ConfidenceSamples, trackLog,
               trackConfig>>

\* the generator's settings
genConfig == <<bEnableAsyncGeneration, MeshGenerationManager, AsyncGenerationThreshold,
               bAutoUpdate, bFreezeMeshOnTrackingLoss, bUseSpatialAnchors,
               bAutoRecoverFromTrackingLoss, MarchingCubesConfig>>

genVars == <<GenerationType, genConfig, ActiveAsyncJobs, CachedPoints,
             PreLossGeometrySnapshot, MeshSections, bMeshVisible, bIsTrackingLost,
             CurrentTrackingQuality, UpdateInterval, lastGen>>

vars == <<storeVars, queryVars, reconVars, jobVars, trackVars, genVars>>

\* what the store operations leave alone
notStoreVars == <<queryVars, reconVars, jobVars, trackVars, genVars>>

\* the broadcasts of an operation: NotifyPointsChanged calls of the storage,
\* OnSpatialIndexUpdated broadcasts of the index
Notified(Storage, Index) == [Storage |-> Storage, Index |-> Index]

\* nothing computed yet
None == [op |-> "none"]

\* no reconstruction is in play
ReconIdle ==
    /\ Points = << >>
    /\ meshSync = None
    /\ meshAsync = None
    /\ Cube = << >>
    /\ cubeResult = None
    /\ mcRuns = << >>

\* the mesh generation manager is not in play
JobsIdle ==
    /\ NextJobID = 1
    /\ ActiveJobs = << >>
    /\ CompletedJobs = << >>
    /\ MaxWorkerThreads = 1
    /\ ManagerLastCleanupTime = 0
    /\ lastInfo = None
    /\ lastSubmit = None
    /\ issuedIDs = << >>
    /\ lastResult = None
    /\ UnlockedAccesses = {}

\* the tracking session as ResetSession leaves it, with no update made, and
\* the thresholds of the constructor (0.9, 0.7, 0.3)
TrackingIdle ==
    /\ SessionInfo = [TrackingState |-> "NotTracking", TrackingQuality |-> "None",
                      TrackingConfidence |-> 0, TrackingInterruptions |-> 0]
    /\ StateHistory = << >>
    /\ TotalConfidence = 0
    /\ ConfidenceSamples = 0
    /\ trackLog = << >>
    /\ ExcellentQualityThreshold = 9
    /\ NormalQualityThreshold = 7
    /\ LimitedQualityThreshold = 3

(***************************************************************************)
(* Generic helpers                                                         *)
(***************************************************************************)
Range(s) == {s[i] : i \in DOMAIN s}

RECURSIVE SeqToBag(_)
SeqToBag(s) ==
    IF s = << >> THEN EmptyBag
    ELSE SetToBag({Head(s)}) (+) SeqToBag(Tail(s))
\* the update interval that the constructor sets and UpdateTrackingQuality
\* restores (0.1 s), the interval that throttling never goes below (0.5 s),
\* and the default quality threshold (0.7)
DefaultUpdateInterval == 1
MinThrottledInterval == 5
TrackingQualityThreshold == 70
SignificantChange == 10

\* FMarchingCubesConfig of the model: a grid of 2 x 2 x 2 voxels (one cube)
\* with spacing 4 and a density radius of 2 * VoxelSize = 4.  IsoValue is the
\* default 0.5 in units of 1/Radius^2 = 1/16.
MCConfig ==
    [VoxelSize |-> 2, IsoValue |-> 8, GridMin |-> <<0, 0, 0>>, GridMax |-> <<4, 4, 4>>,
     GridResolution |-> <<2, 2, 2>>, bSmoothNormals |-> TRUE]

\* the generator as its constructor and BeginPlay leave it, with nothing
\* generated and the marching cubes configuration of the model set
GeneratorIdle ==
    /\ GenerationType = "Mesh"
    /\ bEnableAsyncGeneration = TRUE
    /\ MeshGenerationManager = TRUE
    /\ AsyncGenerationThreshold = 10000
    /\ ActiveAsyncJobs = << >>
    /\ CachedPoints = << >>
    /\ PreLossGeometrySnapshot = << >>
    /\ MeshSections = << >>
    /\ bMeshVisible = TRUE
    /\ bIsTrackingLost = FALSE
    /\ CurrentTrackingQuality = 100
    /\ UpdateInterval = DefaultUpdateInterval
    /\ bAutoUpdate = TRUE
    /\ bFreezeMeshOnTrackingLoss = TRUE
    /\ bUseSpatialAnchors = TRUE
    /\ bAutoRecoverFromTrackingLoss = TRUE
    /\ MarchingCubesConfig = MCConfig
    /\ lastGen = None


Max2(a, b) == IF a >= b THEN a ELSE b
Min2(a, b) == IF a <= b THEN a ELSE b

\* FMath::CeilToInt(a / b) for b > 0
CeilDiv(a, b) == -((-a) \div b)

(***************************************************************************)
(* FBitmapPoint                                                            *)
(***************************************************************************)
FBitmapPoint(pos, ts) == [Position |-> pos, Timestamp |-> ts]

\* the positions that the store specification inserts: two different cells
StoreSites == {<<0, 0, 0>>, <<-1, 0, 0>>}

(***************************************************************************)
(* UBitmapPointStorage                                                     *)
(***************************************************************************)
Storage_AddPoint(pts, p) == Append(pts, p)

Storage_AddPoints(pts, batch) == IF Len(batch) = 0 THEN pts ELSE pts \o batch

\* TArray::RemoveAt(Index) guarded by the range check
Storage_RemovePoint(pts, Index) ==
    IF Index >= 0 /\ Index < Len(pts)
    THEN SubSeq(pts, 1, Index) \o SubSeq(pts, Index + 2, Len(pts))
    ELSE pts

\* RemovePointsWhere: TArray::RemoveAll keeps the order of the survivors;
\* doomed is the set of points the predicate selects
Storage_RemovePointsWhere(pts, doomed) == SelectSeq(pts, LAMBDA p : p \notin doomed)

(***************************************************************************)
(* UBitmapPointSpatialIndex                                                *)
(***************************************************************************)
EmptyGrid == [c \in {} |-> << >>]

WorldToGrid(WorldPos, cs) ==
    <<WorldPos[1] \div cs, WorldPos[2] \div cs, WorldPos[3] \div cs>>

Index_AddPoint(grid, p, cs) ==
    LET GridPos == WorldToGrid(p.Position, cs)
    IN  IF GridPos \in DOMAIN grid
        THEN [grid EXCEPT ![GridPos] = Append(@, p)]
        ELSE grid @@ (GridPos :> <<p>>)

RECURSIVE Index_AddPoints(_, _, _)
Index_AddPoints(grid, pts, cs) ==
    IF pts = << >> THEN grid
    ELSE Index_AddPoints(Index_AddPoint(grid, Head(pts), cs), Tail(pts), cs)

\* the points held by the index, as a multiset
RECURSIVE BagOfCells(_, _)
BagOfCells(grid, cells) ==
    IF cells = {} THEN EmptyBag
    ELSE LET c == CHOOSE x \in cells : TRUE
         IN  SeqToBag(grid[c]) (+) BagOfCells(grid, cells \ {c})

IndexBag(grid) == BagOfCells(grid, DOMAIN grid)

(***************************************************************************)
(* UBitmapPointMemoryManager                                               *)
(***************************************************************************)
\* RemoveOldPoints: the survivors
MM_RemoveOldPoints(pts, maxAge, t) ==
    IF maxAge <= 0 THEN pts
    ELSE LET OldestAllowedTime == t - maxAge
         IN  Storage_RemovePointsWhere(pts,
                 {p \in Range(pts) : p.Timestamp < OldestAllowedTime})

\* RemoveExcessPoints: RemovePoint(0) repeated ExcessCount times
RECURSIVE RemoveFirstN(_, _)
RemoveFirstN(pts, n) ==
    IF n <= 0 \/ Len(pts) = 0 THEN pts
    ELSE RemoveFirstN(Storage_RemovePoint(pts, 0), n - 1)

\* RemoveExcessPoints with an excess count that is one short
MM_RemoveExcessPoints_OneShort(pts, maxPoints) ==
    IF maxPoints <= 0 THEN pts
    ELSE IF Len(pts) <= maxPoints THEN pts
    ELSE RemoveFirstN(pts, Len(pts) - maxPoints - 1)

MM_RemoveExcessPoints(pts, maxPoints) ==
    IF maxPoints <= 0 THEN pts
    ELSE IF Len(pts) <= maxPoints THEN pts
    ELSE RemoveFirstN(pts, Len(pts) - maxPoints)

\* OnMemoryCleanup refilling the index without clearing it first
OnMemoryCleanup_NoClear(grid, count, pts, PointsRemoved, cs) ==
    IF PointsRemoved > 0
    THEN [grid |-> Index_AddPoints(grid, pts, cs), count |-> count + Len(pts)]
    ELSE [grid |-> grid, count |-> count]

\* UMRBitmapMapper::OnMemoryCleanup: resynchronise the index
OnMemoryCleanup(grid, count, pts, PointsRemoved, cs) ==
    IF PointsRemoved > 0
    THEN [grid |-> Index_AddPoints(EmptyGrid, pts, cs), count |-> 0 + Len(pts)]
    ELSE [grid |-> grid, count |-> count]

\* the points of before that are missing in after (after is before with
\* some elements removed, order kept)
RECURSIVE Evicted(_, _)
Evicted(before, after) ==
    IF before = << >> THEN << >>
    ELSE IF after # << >> /\ Head(before) = Head(after)
         THEN Evicted(Tail(before), Tail(after))
         ELSE <<Head(before)>> \o Evicted(Tail(before), after)

\* the index and the store hold different multisets of points
Desynced == IndexBag(SpatialGrid) # SeqToBag(BitmapPoints)

\* PerformCleanupInternal as one step of the store and the index.  The
\* storage broadcasts once in RemovePointsWhere if that removed a point and
\* once in every RemovePoint(0) of RemoveExcessPoints; the index broadcasts
\* in the Clear and in the AddPoints of OnMemoryCleanup.
PerformCleanupInternal(op) ==
    LET afterOld == MM_RemoveOldPoints(BitmapPoints, MaxPointAgeSeconds, now)
        OldPointsRemoved == Len(BitmapPoints) - Len(afterOld)
        afterExcess == MM_RemoveExcessPoints(afterOld, MaxBitmapPoints)
        ExcessPointsRemoved == Len(afterOld) - Len(afterExcess)
        TotalRemoved == OldPointsRemoved + ExcessPointsRemoved
        synced == OnMemoryCleanup(SpatialGrid, TotalPointCount, afterExcess, TotalRemoved, CellSize)
    IN  /\ BitmapPoints' = afterExcess
        /\ SpatialGrid' = synced.grid
        /\ TotalPointCount' = synced.count
        /\ LastCleanupTime' = now
        /\ lastOp' = op
        /\ lastEvicted' = <<Evicted(BitmapPoints, afterOld), Evicted(afterOld, afterExcess)>>
        /\ desyncBefore' = Desynced
        /\ lastNotified' = Notified((IF OldPointsRemoved > 0 THEN 1 ELSE 0) + ExcessPointsRemoved,
                                    IF TotalRemoved > 0 THEN 2 ELSE 0)

\* ShouldPerformCleanup
ShouldPerformCleanup ==
    bAutoCleanupEnabled /\ (now - LastCleanupTime) >= CleanupIntervalSeconds

(***************************************************************************)
(* Actions of the store specification                                      *)
(***************************************************************************)
\* no spatial query has been made
NoQuery == [op |-> "none"]

InitStore ==
    /\ BitmapPoints = << >>
    /\ SpatialGrid = EmptyGrid
    /\ TotalPointCount = 0
    /\ CellSize = 1
    /\ MaxBitmapPoints \in 0..MaxCapacity
    /\ MaxPointAgeSeconds \in 0..MaxAge
    /\ bAutoCleanupEnabled = TRUE
    /\ LastCleanupTime = 0
    /\ CleanupIntervalSeconds \in 1..MaxCleanupInterval
    /\ bRealTimeUpdatesEnabled = TRUE
    /\ now = 0
    /\ lastOp = "Init"
    /\ lastEvicted = << << >>, << >> >>
    /\ desyncBefore = FALSE
    /\ lastNotified = Notified(0, 0)
    /\ lastQuery = NoQuery
    /\ ReconIdle
    /\ JobsIdle
    /\ TrackingIdle
    /\ GeneratorIdle

storeConfig == <<CellSize, MaxBitmapPoints, MaxPointAgeSeconds, bAutoCleanupEnabled,
                 CleanupIntervalSeconds>>

\* bookkeeping of an operation that evicts nothing
Did(op, Storage, Index) ==
    /\ lastOp' = op
    /\ lastEvicted' = << << >>, << >> >>
    /\ desyncBefore' = Desynced
    /\ lastNotified' = Notified(Storage, Index)

\* the points a caller can hand in: created at or before now
NewPoints == {FBitmapPoint(pos, ts) : pos \in StoreSites, ts \in 0..now}

\* UMRBitmapMapper::AddBitmapPoint
AddBitmapPoint ==
    \E p \in NewPoints :
        /\ Len(BitmapPoints) < MaxStored
        /\ TotalPointCount < MaxIndexed
        /\ IF bRealTimeUpdatesEnabled
           THEN /\ BitmapPoints' = Storage_AddPoint(BitmapPoints, p)
                /\ SpatialGrid' = Index_AddPoint(SpatialGrid, p, CellSize)
                /\ TotalPointCount' = TotalPointCount + 1
           ELSE UNCHANGED <<BitmapPoints, SpatialGrid, TotalPointCount>>
        /\ IF bRealTimeUpdatesEnabled THEN Did("AddBitmapPoint", 1, 1)
           ELSE Did("AddBitmapPoint", 0, 0)
        /\ UNCHANGED <<storeConfig, LastCleanupTime, bRealTimeUpdatesEnabled, now, notStoreVars>>

\* the batches a caller can hand in
Batches == UNION {[1..n -> NewPoints] : n \in 0..MaxBatch}

\* AddBitmapPoints that hands the points over one at a time, as a loop over
\* AddBitmapPoint does
AddBitmapPoints_Batch_PerPoint(batch) ==
    /\ Len(BitmapPoints) + Len(batch) <= MaxStored
    /\ TotalPointCount + Len(batch) <= MaxIndexed
    /\ IF bRealTimeUpdatesEnabled /\ Len(batch) # 0
       THEN /\ BitmapPoints' = Storage_AddPoints(BitmapPoints, batch)
            /\ SpatialGrid' = Index_AddPoints(SpatialGrid, batch, CellSize)
            /\ TotalPointCount' = TotalPointCount + Len(batch)
            /\ Did("AddBitmapPoints", Len(batch), Len(batch))
       ELSE /\ UNCHANGED <<BitmapPoints, SpatialGrid, TotalPointCount>>
            /\ Did("AddBitmapPoints", 0, 0)
    /\ UNCHANGED <<storeConfig, LastCleanupTime, bRealTimeUpdatesEnabled, now, notStoreVars>>

\* UMRBitmapMapper::AddBitmapPoints: one Storage->AddPoints and one
\* SpatialIndex->AddPoints for the whole batch, each of which broadcasts once
AddBitmapPoints_Batch(batch) ==
    /\ Len(BitmapPoints) + Len(batch) <= MaxStored
    /\ TotalPointCount + Len(batch) <= MaxIndexed
    /\ IF bRealTimeUpdatesEnabled /\ Len(batch) # 0
       THEN /\ BitmapPoints' = Storage_AddPoints(BitmapPoints, batch)
            /\ SpatialGrid' = Index_AddPoints(SpatialGrid, batch, CellSize)
            /\ TotalPointCount' = TotalPointCount + Len(batch)
            /\ Did("AddBitmapPoints", 1, 1)
       ELSE /\ UNCHANGED <<BitmapPoints, SpatialGrid, TotalPointCount>>
            /\ Did("AddBitmapPoints", 0, 0)
    /\ UNCHANGED <<storeConfig, LastCleanupTime, bRealTimeUpdatesEnabled, now, notStoreVars>>

\* a caller hands in a batch
AddBitmapPoints == \E batch \in Batches : AddBitmapPoints_Batch(batch)

\* UMRBitmapMapper::ClearBitmapPoints
ClearBitmapPoints ==
    /\ BitmapPoints' = << >>
    /\ SpatialGrid' = EmptyGrid
    /\ TotalPointCount' = 0
    /\ Did("ClearBitmapPoints", IF Len(BitmapPoints) > 0 THEN 1 ELSE 0, 1)
    /\ UNCHANGED <<storeConfig, LastCleanupTime, bRealTimeUpdatesEnabled, now, notStoreVars>>

\* UMRBitmapMapper::SetRealTimeUpdates
SetRealTimeUpdates ==
    \E bEnabled \in BOOLEAN :
        /\ bRealTimeUpdatesEnabled' = bEnabled
        /\ Did("SetRealTimeUpdates", 0, 0)
        /\ UNCHANGED <<BitmapPoints, SpatialGrid, TotalPointCount, storeConfig,
                       LastCleanupTime, now, notStoreVars>>

\* UBitmapPointStorage::RemovePoint called on the storage component
StorageRemovePoint ==
    \E Index \in 0..(MaxStored - 1) :
        /\ BitmapPoints' = Storage_RemovePoint(BitmapPoints, Index)
        /\ Did("StorageRemovePoint", IF Index < Len(BitmapPoints) THEN 1 ELSE 0, 0)
        /\ UNCHANGED <<SpatialGrid, TotalPointCount, storeConfig, LastCleanupTime,
                       bRealTimeUpdatesEnabled, now, notStoreVars>>

\* UMRBitmapMapper::RemoveOldPoints: the memory manager's RemoveOldPoints,
\* the index is not touched
RemoveOldPoints ==
    LET after == MM_RemoveOldPoints(BitmapPoints, MaxPointAgeSeconds, now)
    IN  /\ BitmapPoints' = after
        /\ lastOp' = "RemoveOldPoints"
        /\ lastEvicted' = <<Evicted(BitmapPoints, after), << >> >>
        /\ desyncBefore' = Desynced
        /\ lastNotified' = Notified(IF Len(after) < Len(BitmapPoints) THEN 1 ELSE 0, 0)
        /\ UNCHANGED <<SpatialGrid, TotalPointCount, storeConfig, LastCleanupTime,
                       bRealTimeUpdatesEnabled, now, notStoreVars>>

\* UMRBitmapMapper::ForceCleanup -> UBitmapPointMemoryManager::PerformCleanup
ForceCleanup ==
    /\ PerformCleanupInternal("PerformCleanup")
    /\ UNCHANGED <<storeConfig, bRealTimeUpdatesEnabled, now, notStoreVars>>

\* UBitmapPointMemoryManager::Tick
MemoryManagerTick ==
    /\ IF ShouldPerformCleanup
       THEN PerformCleanupInternal("TickCleanup")
       ELSE /\ Did("Tick", 0, 0)
            /\ UNCHANGED <<BitmapPoints, SpatialGrid, TotalPointCount, LastCleanupTime>>
    /\ UNCHANGED <<storeConfig, bRealTimeUpdatesEnabled, now, notStoreVars>>

\* the clock advances
AdvanceTime ==
    /\ now < MaxTime
    /\ now' = now + 1
    /\ Did("AdvanceTime", 0, 0)
    /\ UNCHANGED <<BitmapPoints, SpatialGrid, TotalPointCount, storeConfig,
                   LastCleanupTime, bRealTimeUpdatesEnabled, notStoreVars>>

NextStore ==
    \/ AddBitmapPoint
    \/ AddBitmapPoints
    \/ ClearBitmapPoints
    \/ SetRealTimeUpdates
    \/ StorageRemovePoint
    \/ RemoveOldPoints
    \/ ForceCleanup
    \/ MemoryManagerTick
    \/ AdvanceTime

SpecStore == InitStore /\ [][NextStore]_vars

(***************************************************************************)
(* Properties of the store specification                                   *)
(***************************************************************************)
CleanupOps == {"PerformCleanup", "TickCleanup"}

\* C1: immediately after a cleanup pass (PerformCleanup or the timer-driven
\* one in Tick) the store holds at most MaxBitmapPoints points when
\* MaxBitmapPoints > 0, and no remaining point has a timestamp below
\* now - MaxPointAgeSeconds when MaxPointAgeSeconds > 0.
C1_CleanupBounds ==
    lastOp \in CleanupOps =>
        /\ MaxBitmapPoints > 0 => Len(BitmapPoints) <= MaxBitmapPoints
        /\ MaxPointAgeSeconds > 0 =>
               \A i \in DOMAIN BitmapPoints :
                   ~(BitmapPoints[i].Timestamp < now - MaxPointAgeSeconds)

\* a timer-driven cleanup pass has just evicted by capacity with both limits
\* switched on, and points remain
C1_Witness ==
    /\ lastOp = "TickCleanup"
    /\ MaxBitmapPoints > 0
    /\ MaxPointAgeSeconds > 0
    /\ lastEvicted[2] # << >>
    /\ BitmapPoints # << >>

\* C2: after the synchronisation step of OnMemoryCleanup (it runs when a
\* cleanup pass removed at least one point) the index holds the same multiset
\* of points as the store and its point count equals the store's count.
C2_IndexMatchesStoreAfterSync ==
    (lastOp \in CleanupOps /\ Len(lastEvicted[1]) + Len(lastEvicted[2]) > 0) =>
        /\ IndexBag(SpatialGrid) = SeqToBag(BitmapPoints)
        /\ TotalPointCount = Len(BitmapPoints)

\* the synchronisation ran on an index that had drifted from the store, and
\* points remain
C2_Witness ==
    /\ lastOp \in CleanupOps
    /\ Len(lastEvicted[1]) + Len(lastEvicted[2]) > 0
    /\ desyncBefore
    /\ BitmapPoints # << >>

\* C8: a cleanup pass with maxAge = 0 and capacity C > 0 on N > C stored
\* points leaves exactly C points, and every removed point is at least as
\* old (timestamp not larger) as every point that remains, whatever the
\* insertion order was.
C8_OldestEvicted ==
    (/\ lastOp \in CleanupOps
     /\ MaxPointAgeSeconds = 0
     /\ MaxBitmapPoints > 0
     /\ lastEvicted[2] # << >>) =>
        /\ Len(BitmapPoints) = MaxBitmapPoints
        /\ \A e \in Range(lastEvicted[2]), k \in Range(BitmapPoints) :
               e.Timestamp <= k.Timestamp

MapperOps ==
    {"AddBitmapPoint", "AddBitmapPoints", "ClearBitmapPoints", "RemoveOldPoints",
     "PerformCleanup"}

\* C36: the spatial index never diverges from the store through the mapper:
\* when the index and the store hold the same multiset of points, they still
\* do after any of AddBitmapPoint, AddBitmapPoints, ClearBitmapPoints,
\* RemoveOldPoints and ForceCleanup, with any settings.
C36_MapperKeepsIndexInSync ==
    [][(lastOp' \in MapperOps /\ ~Desynced) => ~Desynced']_vars

\* C32: a batch handed to AddBitmapPoints while real-time updates are
\* disabled is stored all the same: afterwards the store holds the points it
\* held and every point of the batch, so that GetBitmapPoints returns them
\* once the updates are enabled again.
C32_DisabledUpdatesStillStore ==
    [][(lastOp' = "AddBitmapPoints" /\ ~bRealTimeUpdatesEnabled) =>
       \A batch \in Batches :
          AddBitmapPoints_Batch(batch) =>
              SeqToBag(BitmapPoints') = SeqToBag(BitmapPoints) (+) SeqToBag(batch)]_vars

(***************************************************************************)
(* The eviction specification: cleanup passes on a store that already      *)
(* holds up to MaxEvictable points, as earlier adds left it                *)
(***************************************************************************)
MaxEvictable == 3       \* the store starts with up to MaxEvictable points

InitEvict ==
    /\ now \in 0..MaxTime
    /\ BitmapPoints \in UNION {[1..n -> {FBitmapPoint(<<0, 0, 0>>, ts) : ts \in 0..now}] :
                                  n \in 0..MaxEvictable}
    /\ SpatialGrid = Index_AddPoints(EmptyGrid, BitmapPoints, 1)
    /\ TotalPointCount = Len(BitmapPoints)
    /\ CellSize = 1
    /\ MaxBitmapPoints \in 0..MaxCapacity
    /\ MaxPointAgeSeconds \in 0..MaxAge
    /\ bAutoCleanupEnabled = TRUE
    /\ LastCleanupTime = 0
    /\ CleanupIntervalSeconds \in 1..MaxCleanupInterval
    /\ bRealTimeUpdatesEnabled = TRUE
    /\ lastOp = "Init"
    /\ lastEvicted = << << >>, << >> >>
    /\ desyncBefore = FALSE
    /\ lastNotified = Notified(0, 0)
    /\ lastQuery = NoQuery
    /\ ReconIdle
    /\ JobsIdle
    /\ TrackingIdle
    /\ GeneratorIdle

NextEvict ==
    \/ RemoveOldPoints
    \/ ForceCleanup
    \/ MemoryManagerTick
    \/ AdvanceTime

SpecEvict == InitEvict /\ [][NextEvict]_vars

\* C26: a cleanup pass that removes k >= 1 points (by age, by capacity, or
\* both) fires exactly one 'points changed' notification from the point
\* store, independent of k; a pass that removes nothing fires none.
C26_EvictionNotifiedOnce ==
    lastOp \in CleanupOps =>
        lastNotified.Storage =
            IF Len(lastEvicted[1]) + Len(lastEvicted[2]) >= 1 THEN 1 ELSE 0

(***************************************************************************)
(* Spatial queries of UBitmapPointSpatialIndex.  Coordinates, cell sizes   *)
(* and radii are integers, so every comparison of distances is decided     *)
(* exactly on squared values.                                              *)
(***************************************************************************)
Sq(a) == a * a

\* FVector::DistSquared
DistSquared(a, b) == Sq(a[1] - b[1]) + Sq(a[2] - b[2]) + Sq(a[3] - b[3])

\* IsPointInRadius
IsPointInRadius(Point, Center, Radius) ==
    DistSquared(Point.Position, Center) <= Radius * Radius

\* GetSquaredDistance
GetSquaredDistance(Point, Location) == DistSquared(Point.Position, Location)

\* GridToWorld
GridToWorld(GridPos, cs) == <<GridPos[1] * cs, GridPos[2] * cs, GridPos[3] * cs>>

\* the test DistanceToCell <= Radius + CellDiagonal of GetCellsInSphere, with
\* CellCenter = GridToWorld(GridPos) + CellSize/2 and CellDiagonal =
\* CellSize*sqrt(3)/2.  In doubled coordinates D4 = 4*DistanceToCell^2; for
\* Radius >= 0 the test is 4*d^2 - 4*R^2 - 3*cs^2 <= 4*R*cs*sqrt(3).
CellIntersectsSphere(Center, GridPos, Radius, cs) ==
    LET W == GridToWorld(GridPos, cs)
        D4 == Sq(2 * Center[1] - (2 * W[1] + cs)) + Sq(2 * Center[2] - (2 * W[2] + cs))
              + Sq(2 * Center[3] - (2 * W[3] + cs))
        L == D4 - 4 * Sq(Radius) - 3 * Sq(cs)
    IN  L <= 0 \/ Sq(L) <= 48 * Sq(Radius) * Sq(cs)

\* the cube of offsets -CellRadius..CellRadius in the order of the X, Y, Z loops
CellOffsets(CellRadius) ==
    LET w == 2 * CellRadius + 1
    IN  [n \in 1..(w * w * w) |->
            <<((n - 1) \div (w * w)) - CellRadius,
              (((n - 1) \div w) % w) - CellRadius,
              ((n - 1) % w) - CellRadius>>]

\* GetCellsInSphere with a cell radius of CellRadius cells
CellsInSphereWithin(Center, Radius, cs, CellRadius) ==
    LET CenterGrid == WorldToGrid(Center, cs)
        offs == CellOffsets(CellRadius)
        cand == [n \in DOMAIN offs |->
                    <<CenterGrid[1] + offs[n][1], CenterGrid[2] + offs[n][2],
                      CenterGrid[3] + offs[n][3]>>]
    IN  SelectSeq(cand, LAMBDA GridPos : CellIntersectsSphere(Center, GridPos, Radius, cs))

\* GetCellsInSphere with the cell radius rounded down
GetCellsInSphere_Floor(Center, Radius, cs) ==
    CellsInSphereWithin(Center, Radius, cs, Radius \div cs)

\* GetCellsInSphere
GetCellsInSphere(Center, Radius, cs) ==
    CellsInSphereWithin(Center, Radius, cs, CeilDiv(Radius, cs))

\* the points of the cells of CellsToCheck that exist, in visiting order
RECURSIVE PointsOfCells(_, _)
PointsOfCells(grid, CellsToCheck) ==
    IF CellsToCheck = << >> THEN << >>
    ELSE (IF Head(CellsToCheck) \in DOMAIN grid THEN grid[Head(CellsToCheck)] ELSE << >>)
         \o PointsOfCells(grid, Tail(CellsToCheck))

\* FindPointsInRadius
FindPointsInRadius(grid, cs, Location, Radius) ==
    SelectSeq(PointsOfCells(grid, GetCellsInSphere(Location, Radius, cs)),
              LAMBDA Point : IsPointInRadius(Point, Location, Radius))

\* operator< ordering the nearer entry first (a min-heap)
HeapBefore_MinHeap(a, b) == a.DistanceSquared < b.DistanceSquared

\* FPointDistance::operator< : the farther entry comes first (max-heap)
HeapBefore(a, b) == a.DistanceSquared > b.DistanceSquared

SwapAt(h, i, j) == [h EXCEPT ![i] = h[j], ![j] = h[i]]

\* HeapifyUp(Index): sift the entry at position i (1-based) towards the root
RECURSIVE HeapifyUp(_, _)
HeapifyUp(h, i) ==
    IF i <= 1 THEN h
    ELSE LET parent == i \div 2
         IN  IF HeapBefore(h[i], h[parent]) THEN HeapifyUp(SwapAt(h, i, parent), parent)
             ELSE h

\* sift the entry at position i (1-based) towards the leaves
RECURSIVE HeapSiftDown(_, _)
HeapSiftDown(h, i) ==
    IF 2 * i > Len(h) THEN h
    ELSE LET Left == 2 * i
             Right == 2 * i + 1
             MinChild == IF Right <= Len(h) /\ ~HeapBefore(h[Left], h[Right])
                         THEN Right ELSE Left
         IN  IF HeapBefore(h[MinChild], h[i])
             THEN HeapSiftDown(SwapAt(h, i, MinChild), MinChild)
             ELSE h

\* Heapify(): sift down every inner node, last parent first
RECURSIVE HeapifyFrom(_, _)
HeapifyFrom(h, i) == IF i < 1 THEN h ELSE HeapifyFrom(HeapSiftDown(h, i), i - 1)

Heapify(h) == HeapifyFrom(h, Len(h) \div 2)

\* one round of the candidate loop of FindKNearestPoints
KNearestStep(NearestPoints, Point, Location, K, MaxDistanceSquared) ==
    LET DistanceSquared == GetSquaredDistance(Point, Location)
        entry == [Point |-> Point, DistanceSquared |-> DistanceSquared]
    IN  IF DistanceSquared <= MaxDistanceSquared
        THEN IF Len(NearestPoints) < K
             THEN HeapifyUp(Append(NearestPoints, entry), Len(NearestPoints) + 1)
             ELSE IF DistanceSquared < NearestPoints[1].DistanceSquared
                  THEN Heapify([NearestPoints EXCEPT ![1] = entry])
                  ELSE NearestPoints
        ELSE NearestPoints

RECURSIVE KNearestLoop(_, _, _, _, _)
KNearestLoop(NearestPoints, cands, Location, K, MaxDistanceSquared) ==
    IF cands = << >> THEN NearestPoints
    ELSE KNearestLoop(KNearestStep(NearestPoints, Head(cands), Location, K, MaxDistanceSquared),
                      Tail(cands), Location, K, MaxDistanceSquared)

\* Result.Sort by squared distance to Location, closest first (the order of
\* points at equal distance is the insertion order here)
RECURSIVE InsertByDistance(_, _, _)
InsertByDistance(sorted, p, Location) ==
    IF sorted = << >> THEN <<p>>
    ELSE IF DistSquared(p.Position, Location) < DistSquared(Head(sorted).Position, Location)
         THEN <<p>> \o sorted
         ELSE <<Head(sorted)>> \o InsertByDistance(Tail(sorted), p, Location)

RECURSIVE SortByDistance(_, _)
SortByDistance(pts, Location) ==
    IF pts = << >> THEN << >>
    ELSE InsertByDistance(SortByDistance(SubSeq(pts, 1, Len(pts) - 1), Location),
                          pts[Len(pts)], Location)

\* FindKNearestPoints
FindKNearestPoints(grid, cs, Location, K, MaxDistance) ==
    IF K <= 0 THEN << >>
    ELSE LET MaxDistanceSquared == MaxDistance * MaxDistance
             CellsToCheck == GetCellsInSphere(Location, MaxDistance, cs)
             NearestPoints == KNearestLoop(<< >>, PointsOfCells(grid, CellsToCheck),
                                           Location, K, MaxDistanceSquared)
             Result == [i \in DOMAIN NearestPoints |-> NearestPoints[i].Point]
         IN  SortByDistance(Result, Location)

(***************************************************************************)
(* The query specification: an index filled point by point and queried     *)
(***************************************************************************)
QuerySites == {<<x, 0, z>> : x \in (-MaxCoord)..MaxCoord, z \in 0..1}

InitQuery ==
    /\ BitmapPoints = << >>
    /\ SpatialGrid = EmptyGrid
    /\ TotalPointCount = 0
    /\ CellSize \in 1..MaxCellSize
    /\ MaxBitmapPoints = 0
    /\ MaxPointAgeSeconds = 0
    /\ bAutoCleanupEnabled = TRUE
    /\ LastCleanupTime = 0
    /\ CleanupIntervalSeconds = 1
    /\ bRealTimeUpdatesEnabled = TRUE
    /\ now = 0
    /\ lastOp = "Init"
    /\ lastEvicted = << << >>, << >> >>
    /\ desyncBefore = FALSE
    /\ lastNotified = Notified(0, 0)
    /\ lastQuery = NoQuery
    /\ ReconIdle
    /\ JobsIdle
    /\ TrackingIdle
    /\ GeneratorIdle

\* what the query specification leaves alone
notIndexVars == <<BitmapPoints, storeConfig, LastCleanupTime, bRealTimeUpdatesEnabled,
                  now, lastOp, lastEvicted, desyncBefore, lastNotified, reconVars, jobVars,
                  trackVars, genVars>>

\* UBitmapPointSpatialIndex::AddPoint called on the index component
CallIndexAddPoint ==
    \E pos \in QuerySites :
        /\ TotalPointCount < MaxQueryPoints
        /\ SpatialGrid' = Index_AddPoint(SpatialGrid, FBitmapPoint(pos, 0), CellSize)
        /\ TotalPointCount' = TotalPointCount + 1
        /\ lastQuery' = NoQuery
        /\ UNCHANGED notIndexVars

\* UBitmapPointSpatialIndex::FindPointsInRadius called on the index component.
\* The queries are const: one result is kept per content of the index and is
\* dropped when the index changes.
CallFindPointsInRadius ==
    \E Location \in QuerySites, Radius \in 0..MaxRadius :
        /\ lastQuery = NoQuery
        /\ lastQuery' = [op |-> "FindPointsInRadius", Location |-> Location,
                         Radius |-> Radius,
                         Result |-> FindPointsInRadius(SpatialGrid, CellSize, Location, Radius)]
        /\ UNCHANGED <<SpatialGrid, TotalPointCount, notIndexVars>>

\* UBitmapPointSpatialIndex::FindKNearestPoints called on the index component
CallFindKNearestPoints ==
    \E Location \in QuerySites, K \in 0..MaxK, MaxDistance \in 0..MaxRadius :
        /\ lastQuery = NoQuery
        /\ lastQuery' = [op |-> "FindKNearestPoints", Location |-> Location, K |-> K,
                         MaxDistance |-> MaxDistance,
                         Result |-> FindKNearestPoints(SpatialGrid, CellSize, Location,
                                                       K, MaxDistance)]
        /\ UNCHANGED <<SpatialGrid, TotalPointCount, notIndexVars>>

NextQuery ==
    \/ CallIndexAddPoint
    \/ CallFindPointsInRadius
    \/ CallFindKNearestPoints

SpecQuery == InitQuery /\ [][NextQuery]_vars

\* the loop of FindNearestPoint over the points of the cells to check
RECURSIVE NearestLoop(_, _, _)
NearestLoop(best, cands, Location) ==
    IF cands = << >> THEN best
    ELSE LET DistanceSquared == GetSquaredDistance(Head(cands), Location)
         IN  NearestLoop(IF DistanceSquared < best.MinDistanceSquared
                         THEN [MinDistanceSquared |-> DistanceSquared,
                               OutPoint |-> Head(cands), bFoundPoint |-> TRUE]
                         ELSE best,
                         Tail(cands), Location)

\* FindNearestPoint: what it returns, and OutPoint (untouched when no point
\* is found)
FindNearestPoint(grid, cs, Location, MaxDistance) ==
    LET CellsToCheck == GetCellsInSphere(Location, MaxDistance, cs)
    IN  NearestLoop([MinDistanceSquared |-> MaxDistance * MaxDistance, OutPoint |-> None,
                     bFoundPoint |-> FALSE],
                    PointsOfCells(grid, CellsToCheck), Location)

\* UBitmapPointSpatialIndex::FindNearestPoint called on the index component
CallFindNearestPoint ==
    \E Location \in QuerySites, MaxDistance \in 0..MaxRadius :
        /\ lastQuery = NoQuery
        /\ LET r == FindNearestPoint(SpatialGrid, CellSize, Location, MaxDistance)
           IN  lastQuery' = [op |-> "FindNearestPoint", Location |-> Location,
                             MaxDistance |-> MaxDistance, bFound |-> r.bFoundPoint,
                             OutPoint |-> r.OutPoint]
        /\ UNCHANGED <<SpatialGrid, TotalPointCount, notIndexVars>>

\* an index filled point by point and asked for the nearest point
NextNearest ==
    \/ CallIndexAddPoint
    \/ CallFindNearestPoint

SpecNearest == InitQuery /\ [][NextNearest]_vars

\* C40: FindNearestPoint returns true exactly when FindKNearestPoints with
\* K = 1 and the same arguments returns a non-empty list, and then its
\* OutPoint is as far from the location as that list's single element; this
\* includes the points exactly at MaxDistance.
C40_NearestAgreesWithKNearest ==
    lastQuery.op = "FindNearestPoint" =>
        LET Nearest == FindKNearestPoints(SpatialGrid, CellSize, lastQuery.Location, 1,
                                          lastQuery.MaxDistance)
        IN  /\ lastQuery.bFound <=> Nearest # << >>
            /\ lastQuery.bFound =>
                   GetSquaredDistance(lastQuery.OutPoint, lastQuery.Location)
                       = GetSquaredDistance(Nearest[1], lastQuery.Location)

(***************************************************************************)
(* Properties of the query specification                                   *)
(***************************************************************************)
\* all indexed points, cell after cell
RECURSIVE PointsOfGrid(_, _)
PointsOfGrid(grid, cells) ==
    IF cells = {} THEN << >>
    ELSE LET c == CHOOSE x \in cells : TRUE
         IN  grid[c] \o PointsOfGrid(grid, cells \ {c})

\* the indexed points within distance r of Location, as a multiset
IndexedWithin(Location, r) ==
    SeqToBag(SelectSeq(PointsOfGrid(SpatialGrid, DOMAIN SpatialGrid),
                       LAMBDA p : DistSquared(p.Position, Location) <= r * r))

\* C3: for every indexed point set, centre and radius >= 0, FindPointsInRadius
\* returns exactly the indexed points at distance <= radius (as a multiset),
\* and GetCellsInSphere lists every cell that holds such a point.
C3_RadiusQueryExact ==
    lastQuery.op = "FindPointsInRadius" =>
        /\ SeqToBag(lastQuery.Result) = IndexedWithin(lastQuery.Location, lastQuery.Radius)
        /\ \A c \in DOMAIN SpatialGrid :
               (\E i \in DOMAIN SpatialGrid[c] :
                    IsPointInRadius(SpatialGrid[c][i], lastQuery.Location, lastQuery.Radius))
               => c \in Range(GetCellsInSphere(lastQuery.Location, lastQuery.Radius, CellSize))

\* a radius query returned a point of a cell other than the centre's, while
\* another indexed point lay outside the radius
C3_Witness ==
    /\ lastQuery.op = "FindPointsInRadius"
    /\ lastQuery.Radius > 0
    /\ \E i \in DOMAIN lastQuery.Result :
           WorldToGrid(lastQuery.Result[i].Position, CellSize)
               # WorldToGrid(lastQuery.Location, CellSize)
    /\ Len(lastQuery.Result) < TotalPointCount

\* C4: for k > 0, FindKNearestPoints returns min(k, m) points, m being the
\* number of indexed points within maxDist; all returned points are indexed
\* points within maxDist, no omitted point within maxDist is strictly closer
\* than a returned one, and the result is in ascending order of distance.
C4_KNearest ==
    (lastQuery.op = "FindKNearestPoints" /\ lastQuery.K > 0) =>
        LET within == IndexedWithin(lastQuery.Location, lastQuery.MaxDistance)
            res == lastQuery.Result
            d(p) == DistSquared(p.Position, lastQuery.Location)
            omitted == within (-) SeqToBag(res)
        IN  /\ Len(res) = Min2(lastQuery.K, BagCardinality(within))
            /\ SeqToBag(res) \sqsubseteq within
            /\ \A o \in BagToSet(omitted), i \in DOMAIN res : ~(d(o) < d(res[i]))
            /\ \A i \in 1..(Len(res) - 1) : d(res[i]) <= d(res[i + 1])

\* a k-nearest query with k >= 2 returned k points at different distances and
\* left out a point within maxDist that is farther than all of them
C4_Witness ==
    /\ lastQuery.op = "FindKNearestPoints"
    /\ lastQuery.K >= 2
    /\ Len(lastQuery.Result) = lastQuery.K
    /\ DistSquared(lastQuery.Result[1].Position, lastQuery.Location)
           < DistSquared(lastQuery.Result[2].Position, lastQuery.Location)
    /\ BagCardinality(IndexedWithin(lastQuery.Location, lastQuery.MaxDistance))
           > lastQuery.K
(***************************************************************************)
(* Fan (Mesh) reconstruction: UProceduralGenerator::GenerateMesh and       *)
(* FMeshGenerationTask::GenerateTriangulatedMesh                            *)
(***************************************************************************)
\* the store, the index and the queries are not in play
StoreIdle ==
    /\ BitmapPoints = << >>
    /\ SpatialGrid = EmptyGrid
    /\ TotalPointCount = 0
    /\ CellSize = 1
    /\ MaxBitmapPoints = 0
    /\ MaxPointAgeSeconds = 0
    /\ bAutoCleanupEnabled = TRUE
    /\ LastCleanupTime = 0
    /\ CleanupIntervalSeconds = 1
    /\ bRealTimeUpdatesEnabled = TRUE
    /\ now = 0
    /\ lastOp = "Init"
    /\ lastEvicted = << << >>, << >> >>
    /\ desyncBefore = FALSE
    /\ lastNotified = Notified(0, 0)
    /\ lastQuery = NoQuery

\* the Vertices array: the positions in input order
PositionsOf(pts) == [i \in DOMAIN pts |-> pts[i].Position]

\* the triangle loop of GenerateMesh: for (i = 1; i < Num - 1; i++) (0, i, i+1)
RECURSIVE GenerateMesh_Triangles(_, _)
GenerateMesh_Triangles(Num, i) ==
    IF i < Num - 1 THEN <<0, i, i + 1>> \o GenerateMesh_Triangles(Num, i + 1) ELSE << >>

\* UProceduralGenerator::GenerateMesh: the mesh section it creates, if any
GenerateMesh(pts) ==
    IF Len(pts) < 3
    THEN [op |-> "GenerateMesh", bSection |-> FALSE, Vertices |-> << >>, Triangles |-> << >>]
    ELSE [op |-> "GenerateMesh", bSection |-> TRUE, Vertices |-> PositionsOf(pts),
          Triangles |-> GenerateMesh_Triangles(Len(pts), 1)]

\* the triangle loop of the task with an upper bound that is one too large
RECURSIVE TriangulatedMesh_Triangles_OneMore(_, _)
TriangulatedMesh_Triangles_OneMore(Num, i) ==
    IF i < Num THEN <<0, i, i + 1>> \o TriangulatedMesh_Triangles_OneMore(Num, i + 1)
    ELSE << >>

\* the triangle loop of GenerateTriangulatedMesh
RECURSIVE TriangulatedMesh_Triangles(_, _)
TriangulatedMesh_Triangles(Num, i) ==
    IF i < Num - 1 THEN <<0, i, i + 1>> \o TriangulatedMesh_Triangles(Num, i + 1)
    ELSE << >>

\* FMeshGenerationTask::GenerateTriangulatedMesh.  The loops poll ShouldCancel
\* when i % 1000 = 0: the vertex loop at i = 0, the triangle loop not before
\* i = 1000; bCancelled is what the poll at i = 0 sees.
GenerateTriangulatedMesh(pts, bCancelled) ==
    IF Len(pts) < 3
    THEN [op |-> "GenerateTriangulatedMesh", bCancelled |-> bCancelled, bSuccess |-> FALSE,
          Vertices |-> << >>, Triangles |-> << >>]
    ELSE IF bCancelled
    THEN [op |-> "GenerateTriangulatedMesh", bCancelled |-> TRUE, bSuccess |-> FALSE,
          Vertices |-> << >>, Triangles |-> << >>]
    ELSE [op |-> "GenerateTriangulatedMesh", bCancelled |-> FALSE, bSuccess |-> TRUE,
          Vertices |-> PositionsOf(pts),
          Triangles |-> TriangulatedMesh_Triangles(Len(pts), 1)]

\* the corners of the one-cell voxel grid, also used as point positions
CornerPosition ==
    [k \in 0..7 |-> CASE k = 0 -> <<0, 0, 0>> [] k = 1 -> <<4, 0, 0>>
                      [] k = 2 -> <<4, 4, 0>> [] k = 3 -> <<0, 4, 0>>
                      [] k = 4 -> <<0, 0, 4>> [] k = 5 -> <<4, 0, 4>>
                      [] k = 6 -> <<4, 4, 4>> [] k = 7 -> <<0, 4, 4>>]

\* the middle of the edge between corners 0 and 1
EdgeMidpoint == <<2, 0, 0>>

ReconSites == {CornerPosition[k] : k \in {0, 5, 6, 7}} \cup {EdgeMidpoint}

RECURSIVE SeqsUpTo(_, _)
SeqsUpTo(S, n) ==
    IF n = 0 THEN {<< >>}
    ELSE LET shorter == SeqsUpTo(S, n - 1)
         IN  shorter \cup {Append(q, x) : q \in {r \in shorter : Len(r) = n - 1}, x \in S}

InitFan ==
    /\ StoreIdle
    /\ JobsIdle
    /\ TrackingIdle
    /\ GeneratorIdle
    /\ Points \in SeqsUpTo({FBitmapPoint(pos, 0) : pos \in ReconSites}, MaxFanPoints)
    /\ meshSync = None
    /\ meshAsync = None
    /\ Cube = << >>
    /\ cubeResult = None
    /\ mcRuns = << >>

\* UProceduralGenerator::GenerateMesh on Points
CallGenerateMesh ==
    /\ meshSync' = GenerateMesh(Points)
    /\ UNCHANGED <<storeVars, queryVars, jobVars, trackVars, genVars, Points, meshAsync, Cube, cubeResult, mcRuns>>

\* a Mesh task runs GenerateTriangulatedMesh on Points
CallGenerateTriangulatedMesh ==
    \E bCancelled \in BOOLEAN :
        /\ meshAsync' = GenerateTriangulatedMesh(Points, bCancelled)
        /\ UNCHANGED <<storeVars, queryVars, jobVars, trackVars, genVars, Points, meshSync, Cube, cubeResult, mcRuns>>

NextFan ==
    \/ CallGenerateMesh
    \/ CallGenerateTriangulatedMesh

SpecFan == InitFan /\ [][NextFan]_vars

\* the index buffer holds exactly the fan over n vertices
IsFan(Triangles, n) ==
    /\ Len(Triangles) = 3 * (n - 2)
    /\ \A k \in 1..(n - 2) :
           /\ Triangles[3 * (k - 1) + 1] = 0
           /\ Triangles[3 * (k - 1) + 2] = k
           /\ Triangles[3 * (k - 1) + 3] = k + 1

\* C7: on n >= 3 points the fan reconstruction emits exactly n - 2 triangles
\* over the vertices in input order, the k-th being (0, k, k+1); this holds
\* for the synchronous generator and for a task run that was not cancelled.
C7_FanTriangles ==
    Len(Points) >= 3 =>
        /\ meshSync # None =>
               /\ meshSync.bSection
               /\ meshSync.Vertices = PositionsOf(Points)
               /\ IsFan(meshSync.Triangles, Len(Points))
        /\ (meshAsync # None /\ ~meshAsync.bCancelled) =>
               /\ meshAsync.bSuccess
               /\ meshAsync.Vertices = PositionsOf(Points)
               /\ IsFan(meshAsync.Triangles, Len(Points))
        /\ (Len(Points) = 3 /\ meshSync # None) => meshSync.Triangles = <<0, 1, 2>>

\* both generators have run on four or more points, the task uncancelled
C7_Witness ==
    /\ Len(Points) >= 4
    /\ meshSync # None
    /\ meshAsync # None
    /\ ~meshAsync.bCancelled
    /\ Len(meshAsync.Triangles) >= 6

(***************************************************************************)
(* The two paths of a reconstruction: the generator's algorithm on the     *)
(* caller's thread and the task's algorithm on a worker, run on the same   *)
(* points                                                                   *)
(***************************************************************************)
UpVector == <<0, 0, 1>>

ForwardVector == <<1, 0, 0>>

\* the points handed to both paths: created by the caller with a normal and
\* a colour of its choice
PathPoints ==
    {[Position |-> pos, Timestamp |-> 0, Normal |-> n, Color |-> c] :
        pos \in {CornerPosition[0], CornerPosition[6]},
        n \in {UpVector, ForwardVector},
        c \in {"White", "Red"}}

\* the corners of the cube drawn for a point, as multiples of HalfSize, in
\* the order both algorithms add them
CubeCornerSigns ==
    <<<<-1, -1, -1>>, <<1, -1, -1>>, <<1, 1, -1>>, <<-1, 1, -1>>,
      <<-1, -1, 1>>, <<1, -1, 1>>, <<1, 1, 1>>, <<-1, 1, 1>>>>

\* the 12 triangles of a cube, as offsets from BaseVertex
CubeTriangles ==
    <<0, 1, 2, 0, 2, 3, 5, 4, 7, 5, 7, 6, 4, 0, 3, 4, 3, 7,
      1, 5, 6, 1, 6, 2, 3, 2, 6, 3, 6, 7, 4, 5, 1, 4, 1, 0>>

\* the vertex and index arrays of the cubes of half size PointSize around
\* the points
PointCloudVertices(pts, PointSize) ==
    [m \in 1..(8 * Len(pts)) |->
        [a \in 1..3 |-> pts[((m - 1) \div 8) + 1].Position[a]
                            + CubeCornerSigns[((m - 1) % 8) + 1][a] * PointSize]]

PointCloudTriangles(pts) ==
    [m \in 1..(36 * Len(pts)) |-> 8 * ((m - 1) \div 36) + CubeTriangles[((m - 1) % 36) + 1]]

\* UProceduralGenerator::GeneratePointCloud: the mesh section it creates;
\* PointSize = VoxelSize * 0.5
GeneratePointCloud(pts) ==
    [op |-> "GeneratePointCloud",
     Vertices |-> PointCloudVertices(pts, MCConfig.VoxelSize \div 2),
     Triangles |-> PointCloudTriangles(pts),
     Normals |-> [m \in 1..(8 * Len(pts)) |-> UpVector],
     UV0 |-> [m \in 1..(8 * Len(pts)) |-> <<0, 0>>],
     VertexColors |-> [m \in 1..(8 * Len(pts)) |-> pts[((m - 1) \div 8) + 1].Color]]

\* FMeshGenerationTask::GeneratePointCloudMesh: the arrays of Result.  The
\* loop polls ShouldCancel when i % 1000 = 0, that is at i = 0; bCancelled
\* is what the poll sees.
GeneratePointCloudMesh(pts, bCancelled) ==
    IF bCancelled /\ pts # << >>
    THEN [op |-> "GeneratePointCloudMesh", bCancelled |-> TRUE, bSuccess |-> FALSE,
          Vertices |-> << >>, Triangles |-> << >>, Normals |-> << >>, UV0 |-> << >>,
          VertexColors |-> << >>]
    ELSE [op |-> "GeneratePointCloudMesh", bCancelled |-> bCancelled, bSuccess |-> TRUE,
          Vertices |-> PointCloudVertices(pts, MCConfig.VoxelSize \div 2),
          Triangles |-> PointCloudTriangles(pts),
          Normals |-> [m \in 1..(8 * Len(pts)) |-> pts[((m - 1) \div 8) + 1].Normal],
          UV0 |-> [m \in 1..(8 * Len(pts)) |-> <<0, 0>>],
          VertexColors |-> [m \in 1..(8 * Len(pts)) |-> pts[((m - 1) \div 8) + 1].Color]]

InitPaths ==
    /\ StoreIdle
    /\ JobsIdle
    /\ TrackingIdle
    /\ GeneratorIdle
    /\ Points \in SeqsUpTo(PathPoints, MaxPathPoints)
    /\ meshSync = None
    /\ meshAsync = None
    /\ Cube = << >>
    /\ cubeResult = None
    /\ mcRuns = << >>

\* UProceduralGenerator::GeneratePointCloud on Points
CallGeneratePointCloud ==
    /\ meshSync' = GeneratePointCloud(Points)
    /\ UNCHANGED <<storeVars, queryVars, jobVars, trackVars, genVars, Points, meshAsync, Cube, cubeResult, mcRuns>>

\* a PointCloud task runs GeneratePointCloudMesh on Points
CallGeneratePointCloudMesh ==
    \E bCancelled \in BOOLEAN :
        /\ meshAsync' = GeneratePointCloudMesh(Points, bCancelled)
        /\ UNCHANGED <<storeVars, queryVars, jobVars, trackVars, genVars, Points, meshSync, Cube, cubeResult, mcRuns>>

NextPaths ==
    \/ CallGeneratePointCloud
    \/ CallGeneratePointCloudMesh
    \/ CallGenerateMesh
    \/ CallGenerateTriangulatedMesh

SpecPaths == InitPaths /\ [][NextPaths]_vars

\* C37: the synchronous and the asynchronous path compute the same mesh:
\* run on the same points, the generator's algorithm and the (uncancelled)
\* task's algorithm of the same type yield identical vertex, index, normal,
\* UV and colour arrays.
C37_SyncAsyncSameMesh ==
    /\ (/\ meshSync.op = "GeneratePointCloud"
        /\ meshAsync.op = "GeneratePointCloudMesh"
        /\ ~meshAsync.bCancelled)
       => /\ meshAsync.Vertices = meshSync.Vertices
          /\ meshAsync.Triangles = meshSync.Triangles
          /\ meshAsync.Normals = meshSync.Normals
          /\ meshAsync.UV0 = meshSync.UV0
          /\ meshAsync.VertexColors = meshSync.VertexColors
    /\ (/\ meshSync.op = "GenerateMesh"
        /\ meshAsync.op = "GenerateTriangulatedMesh"
        /\ ~meshAsync.bCancelled)
       => /\ meshAsync.Vertices = meshSync.Vertices
          /\ meshAsync.Triangles = meshSync.Triangles

(***************************************************************************)
(* FMarchingCubesGenerator.  Densities are in sixteenths, so that the      *)
(* weights (1 - d/Radius)^2 of CalculateDensity are integers for the       *)
(* configuration MCConfig.                                                  *)
(***************************************************************************)
\* EdgeTable[256], entry i at position i + 1
EdgeTable ==
    <<0, 265, 515, 778, 1030, 1295, 1541, 1804, 2060, 2309, 2575, 2822, 3082, 3331, 3593, 3840,
      400, 153, 915, 666, 1430, 1183, 1941, 1692, 2460, 2197, 2975, 2710, 3482, 3219, 3993, 3728,
      560, 825, 51, 314, 1590, 1855, 1077, 1340, 2620, 2869, 2111, 2358, 3642, 3891, 3129, 3376,
      928, 681, 419, 170, 1958, 1711, 1445, 1196, 2988, 2725, 2479, 2214, 4010, 3747, 3497, 3232,
      1120, 1385, 1635, 1898, 102, 367, 613, 876, 3180, 3429, 3695, 3942, 2154, 2403, 2665, 2912,
      1520, 1273, 2035, 1786, 502, 255, 1013, 764, 3580, 3317, 4095, 3830, 2554, 2291, 3065, 2800,
      1616, 1881, 1107, 1370, 598, 863, 85, 348, 3676, 3925, 3167, 3414, 2650, 2899, 2137, 2384,
      1984, 1737, 1475, 1226, 966, 719, 453, 204, 4044, 3781, 3535, 3270, 3018, 2755, 2505, 2240,
      2240, 2505, 2755, 3018, 3270, 3535, 3781, 4044, 204, 453, 719, 966, 1226, 1475, 1737, 1984,
      2384, 2137, 2899, 2650, 3414, 3167, 3925, 3676, 348, 85, 863, 598, 1370, 1107, 1881, 1616,
      2800, 3065, 2291, 2554, 3830, 4095, 3317, 3580, 764, 1013, 255, 502, 1786, 2035, 1273, 1520,
      2912, 2665, 2403, 2154, 3942, 3695, 3429, 3180, 876, 613, 367, 102, 1898, 1635, 1385, 1120,
      3232, 3497, 3747, 4010, 2214, 2479, 2725, 2988, 1196, 1445, 1711, 1958, 170, 419, 681, 928,
      3376, 3129, 3891, 3642, 2358, 2111, 2869, 2620, 1340, 1077, 1855, 1590, 314, 51, 825, 560,
      3728, 3993, 3219, 3482, 2710, 2975, 2197, 2460, 1692, 1941, 1183, 1430, 666, 915, 153, 400,
      3840, 3593, 3331, 3082, 2822, 2575, 2309, 2060, 1804, 1541, 1295, 1030, 778, 515, 265, 0>>

\* the initialisers of TriTable[256][16]: rows 0..31 and the closing row 32
TriTableRows ==
    <<<<-1, -1, -1, -1, -1, -1, -1, -1, -1, -1, -1, -1, -1, -1, -1, -1>>,
      <<0, 8, 3, -1, -1, -1, -1, -1, -1, -1, -1, -1, -1, -1, -1, -1>>,
      <<0, 1, 9, -1, -1, -1, -1, -1, -1, -1, -1, -1, -1, -1, -1, -1>>,
      <<1, 8, 3, 9, 8, 1, -1, -1, -1, -1, -1, -1, -1, -1, -1, -1>>,
      <<1, 2, 10, -1, -1, -1, -1, -1, -1, -1, -1, -1, -1, -1, -1, -1>>,
      <<0, 8, 3, 1, 2, 10, -1, -1, -1, -1, -1, -1, -1, -1, -1, -1>>,
      <<9, 2, 10, 0, 2, 9, -1, -1, -1, -1, -1, -1, -1, -1, -1, -1>>,
      <<2, 8, 3, 2, 10, 8, 10, 9, 8, -1, -1, -1, -1, -1, -1, -1>>,
      <<3, 11, 2, -1, -1, -1, -1, -1, -1, -1, -1, -1, -1, -1, -1, -1>>,
      <<0, 11, 2, 8, 11, 0, -1, -1, -1, -1, -1, -1, -1, -1, -1, -1>>,
      <<1, 9, 0, 2, 3, 11, -1, -1, -1, -1, -1, -1, -1, -1, -1, -1>>,
      <<1, 11, 2, 1, 9, 11, 9, 8, 11, -1, -1, -1, -1, -1, -1, -1>>,
      <<3, 10, 1, 11, 10, 3, -1, -1, -1, -1, -1, -1, -1, -1, -1, -1>>,
      <<0, 10, 1, 0, 8, 10, 8, 11, 10, -1, -1, -1, -1, -1, -1, -1>>,
      <<3, 9, 0, 3, 11, 9, 11, 10, 9, -1, -1, -1, -1, -1, -1, -1>>,
      <<9, 8, 10, 10, 8, 11, -1, -1, -1, -1, -1, -1, -1, -1, -1, -1>>,
      <<4, 7, 8, -1, -1, -1, -1, -1, -1, -1, -1, -1, -1, -1, -1, -1>>,
      <<4, 3, 0, 7, 3, 4, -1, -1, -1, -1, -1, -1, -1, -1, -1, -1>>,
      <<0, 1, 9, 8, 4, 7, -1, -1, -1, -1, -1, -1, -1, -1, -1, -1>>,
      <<4, 1, 9, 4, 7, 1, 7, 3, 1, -1, -1, -1, -1, -1, -1, -1>>,
      <<1, 2, 10, 8, 4, 7, -1, -1, -1, -1, -1, -1, -1, -1, -1, -1>>,
      <<3, 4, 7, 3, 0, 4, 1, 2, 10, -1, -1, -1, -1, -1, -1, -1>>,
      <<9, 2, 10, 9, 0, 2, 8, 4, 7, -1, -1, -1, -1, -1, -1, -1>>,
      <<2, 10, 9, 2, 9, 7, 2, 7, 3, 7, 9, 4, -1, -1, -1, -1>>,
      <<8, 4, 7, 3, 11, 2, -1, -1, -1, -1, -1, -1, -1, -1, -1, -1>>,
      <<11, 4, 7, 11, 2, 4, 2, 0, 4, -1, -1, -1, -1, -1, -1, -1>>,
      <<9, 0, 1, 8, 4, 7, 2, 3, 11, -1, -1, -1, -1, -1, -1, -1>>,
      <<4, 7, 11, 9, 4, 11, 9, 11, 2, 9, 2, 1, -1, -1, -1, -1>>,
      <<3, 10, 1, 3, 11, 10, 7, 8, 4, -1, -1, -1, -1, -1, -1, -1>>,
      <<1, 11, 10, 1, 4, 11, 1, 0, 4, 7, 11, 4, -1, -1, -1, -1>>,
      <<4, 7, 8, 9, 0, 11, 9, 11, 10, 11, 0, 3, -1, -1, -1, -1>>,
      <<4, 7, 11, 4, 11, 9, 9, 11, 10, -1, -1, -1, -1, -1, -1, -1>>,
      <<-1, -1, -1, -1, -1, -1, -1, -1, -1, -1, -1, -1, -1, -1, -1, -1>>>>

\* TriTable seen as the flat array the loop of ProcessCube walks: the rows
\* without an initialiser are zero-filled
TriTableLen == Len(EdgeTable) * 16

TriTable(off) ==
    IF off \div 16 < Len(TriTableRows) THEN TriTableRows[(off \div 16) + 1][(off % 16) + 1]
    ELSE 0

\* EdgeTable[CubeIndex] & (1 << e)
EdgeBit(CubeIndex, e) == (EdgeTable[CubeIndex + 1] \div (2 ^ e)) % 2 = 1

FVoxel(Value, Position) == [Value |-> Value, Position |-> Position]

\* CubeIndex: bit k is set when corner k is below the iso-value
RECURSIVE CubeIndexFrom(_, _, _)
CubeIndexFrom(cube, IsoValue, k) ==
    IF k > 7 THEN 0
    ELSE (IF cube[k].Value < IsoValue THEN 2 ^ k ELSE 0) + CubeIndexFrom(cube, IsoValue, k + 1)

\* InterpolateVertex: the point V1.Position + (num/den) * (V2.Position - V1.Position)
InterpolateVertex(V1, V2, IsoValue) ==
    IF IsoValue = V1.Value THEN [from |-> V1.Position, to |-> V1.Position, num |-> 0, den |-> 1]
    ELSE IF IsoValue = V2.Value
    THEN [from |-> V2.Position, to |-> V2.Position, num |-> 0, den |-> 1]
    ELSE IF V1.Value = V2.Value
    THEN [from |-> V1.Position, to |-> V1.Position, num |-> 0, den |-> 1]
    ELSE [from |-> V1.Position, to |-> V2.Position,
          num |-> IsoValue - V1.Value, den |-> V2.Value - V1.Value]

\* the corners joined by edge e
EdgeCorners ==
    [e \in 0..11 |-> CASE e = 0 -> <<0, 1>> [] e = 1 -> <<1, 2>> [] e = 2 -> <<2, 3>>
                       [] e = 3 -> <<3, 0>> [] e = 4 -> <<4, 5>> [] e = 5 -> <<5, 6>>
                       [] e = 6 -> <<6, 7>> [] e = 7 -> <<7, 4>> [] e = 8 -> <<0, 4>>
                       [] e = 9 -> <<1, 5>> [] e = 10 -> <<2, 6>> [] e = 11 -> <<3, 7>>]

\* what an uninitialised or out-of-bounds read yields
Garbage == {[garbage |-> g] : g \in 0..MaxGarbage}

\* VertList[EdgeIndex]: set only for the edges of EdgeTable[CubeIndex]; any
\* other entry, and any index outside 0..11, holds garbage
VertList(cube, IsoValue, CubeIndex, EdgeIndex, g) ==
    IF EdgeIndex \in 0..11 /\ EdgeBit(CubeIndex, EdgeIndex)
    THEN InterpolateVertex(cube[EdgeCorners[EdgeIndex][1]], cube[EdgeCorners[EdgeIndex][2]],
                           IsoValue)
    ELSE g

\* the triangle built in the loop round that starts at flat offset at; a read
\* past the end of the table yields garbage.  The normal is the cross product
\* of Vertices[1] - Vertices[0] and Vertices[2] - Vertices[0] taken at j = 0,
\* when Vertices[1] and Vertices[2] still hold the zero of the constructor:
\* the zero vector.
FMCTriangle(cube, IsoValue, CubeIndex, at, g) ==
    [Vertices |->
        [j \in 1..3 |->
            IF at + (j - 1) < TriTableLen
            THEN VertList(cube, IsoValue, CubeIndex, TriTable(at + (j - 1)), g)
            ELSE g],
     Normal |-> <<0, 0, 0>>]

\* A triangle list is kept in run-length form: a sequence of runs
\* [count, tri], count copies of the triangle tri in a row.
Run(count, tri) == [count |-> count, tri |-> tri]

RECURSIVE NumTriangles(_)
NumTriangles(runs) ==
    IF runs = << >> THEN 0 ELSE Head(runs).count + NumTriangles(Tail(runs))

\* ProcessCube: the set of results the call can produce.  The loop
\* for (i = 0; TriTable[CubeIndex][i] != -1; i += 3) stops at the first -1 it
\* meets at a multiple of 3.  In a zero-filled row there is none: the loop
\* walks on through the following rows, every round within the table reading
\* EdgeIndex 0, and leaves the table, where it reads whatever the memory
\* holds or faults.
ProcessCube(cube, IsoValue) ==
    LET CubeIndex == CubeIndexFrom(cube, IsoValue, 0)
        off == 16 * CubeIndex
        InitLen == 16 * Len(TriTableRows)
        stops == {i \in 0..(InitLen - 1 - off) : i % 3 = 0 /\ TriTable(off + i) = -1}
        tri(at, g) == FMCTriangle(cube, IsoValue, CubeIndex, at, g)
        single(n, g) == [k \in 1..n |-> Run(1, tri(off + 3 * (k - 1), g))]
        \* rounds that start in a row with an initialiser
        nInit == IF off < InitLen THEN CeilDiv(InitLen - off, 3) ELSE 0
        startZero == off + 3 * nInit
        \* rounds in the zero-filled rows whose three reads are inside the table
        nZero == (TriTableLen - startZero) \div 3
        atLast == startZero + 3 * nZero
        walk(g, extra) ==
            single(nInit, g)
            \o (IF nZero > 0 THEN <<Run(nZero, tri(startZero, g))>> ELSE << >>)
            \o (IF atLast < TriTableLen THEN <<Run(1, tri(atLast, g))>> ELSE << >>)
            \o (IF extra > 0 THEN <<Run(extra, tri(TriTableLen, g))>> ELSE << >>)
    IN  IF EdgeTable[CubeIndex + 1] = 0
        THEN {[bFault |-> FALSE, Triangles |-> << >>]}
        ELSE IF stops # {}
        THEN LET end == CHOOSE i \in stops : \A j \in stops : i <= j
             IN  {[bFault |-> FALSE, Triangles |-> single(end \div 3, g)] : g \in Garbage}
        ELSE {[bFault |-> TRUE, Triangles |-> << >>]}
             \cup {[bFault |-> FALSE, Triangles |-> walk(g, extra)] :
                      g \in Garbage, extra \in 0..MaxOverrun}

\* the square root of a perfect square
ISqrt(n) == CHOOSE r \in 0..n : r * r = n

\* CalculateDensity, in units of 1/Radius^2: the weight (1 - d/Radius)^2 of a
\* point at distance d < Radius is (Radius - d)^2 units; Intensity is 1
RECURSIVE CalculateDensity(_, _, _)
CalculateDensity(Position, pts, Radius) ==
    IF pts = << >> THEN 0
    ELSE LET DistanceSquared == DistSquared(Position, Head(pts).Position)
         IN  (IF DistanceSquared < Radius * Radius
              THEN Sq(Radius - ISqrt(DistanceSquared)) ELSE 0)
             + CalculateDensity(Position, Tail(pts), Radius)

\* GetVoxelIndex
GetVoxelIndex(X, Y, Z, GridResolution) ==
    Z * GridResolution[1] * GridResolution[2] + Y * GridResolution[1] + X

\* CreateVoxelGrid: the voxel array, entry VoxelIndex at position VoxelIndex + 1
CreateVoxelGrid(pts, Config) ==
    LET Res == Config.GridResolution
        VoxelSpacing == [a \in 1..3 |-> (Config.GridMax[a] - Config.GridMin[a]) \div (Res[a] - 1)]
        coords(n) == <<n % Res[1], (n \div Res[1]) % Res[2], n \div (Res[1] * Res[2])>>
        VoxelPosition(n) == [a \in 1..3 |-> Config.GridMin[a] + coords(n)[a] * VoxelSpacing[a]]
    IN  [m \in 1..(Res[1] * Res[2] * Res[3]) |->
            FVoxel(CalculateDensity(VoxelPosition(m - 1), pts, Config.VoxelSize * 2),
                   VoxelPosition(m - 1))]

\* GetVoxel for coordinates inside the grid
GetVoxel(X, Y, Z, VoxelGrid, GridResolution) ==
    VoxelGrid[GetVoxelIndex(X, Y, Z, GridResolution) + 1]

\* the 8 corners of the cube at (x, y, z), numbered as GenerateFromVoxelGrid does
CubeAt(x, y, z, VoxelGrid, Res) ==
    [k \in 0..7 |->
        CASE k = 0 -> GetVoxel(x, y, z, VoxelGrid, Res)
          [] k = 1 -> GetVoxel(x + 1, y, z, VoxelGrid, Res)
          [] k = 2 -> GetVoxel(x + 1, y + 1, z, VoxelGrid, Res)
          [] k = 3 -> GetVoxel(x, y + 1, z, VoxelGrid, Res)
          [] k = 4 -> GetVoxel(x, y, z + 1, VoxelGrid, Res)
          [] k = 5 -> GetVoxel(x + 1, y, z + 1, VoxelGrid, Res)
          [] k = 6 -> GetVoxel(x + 1, y + 1, z + 1, VoxelGrid, Res)
          [] k = 7 -> GetVoxel(x, y + 1, z + 1, VoxelGrid, Res)]

\* SmoothNormals: each normal becomes the normalised mean of itself and the
\* normals of the vertices nearby; all of them are the zero vector
SmoothNormals(Triangles) ==
    [i \in DOMAIN Triangles |-> [Triangles[i] EXCEPT !.tri.Normal = <<0, 0, 0>>]]

\* the cube loop of GenerateFromVoxelGrid from cube number n on (x outermost,
\* z innermost), with the triangles collected so far
RECURSIVE CubeLoop(_, _, _, _)
CubeLoop(n, VoxelGrid, Config, acc) ==
    LET Res == Config.GridResolution
        cx == Res[1] - 1
        cy == Res[2] - 1
        cz == Res[3] - 1
    IN  IF n >= cx * cy * cz THEN {[bFault |-> FALSE, Triangles |-> acc]}
        ELSE LET cube == CubeAt(n \div (cy * cz), (n \div cz) % cy, n % cz, VoxelGrid, Res)
             IN  UNION {IF r.bFault THEN {[bFault |-> TRUE, Triangles |-> << >>]}
                        ELSE CubeLoop(n + 1, VoxelGrid, Config, acc \o r.Triangles) :
                        r \in ProcessCube(cube, Config.IsoValue)}

\* GenerateFromVoxelGrid: the set of results the call can produce
GenerateFromVoxelGrid(VoxelGrid, Config) ==
    {IF r.bFault \/ ~Config.bSmoothNormals THEN r
     ELSE [r EXCEPT !.Triangles = SmoothNormals(r.Triangles)] :
        r \in CubeLoop(0, VoxelGrid, Config, << >>)}

\* GenerateFromBitmapPoints: the set of results the call can produce
GenerateFromBitmapPoints(pts, Config) ==
    GenerateFromVoxelGrid(CreateVoxelGrid(pts, Config), Config)

\* a returned triangle list as the state keeps it
Returned(op, r) == [op |-> op, bFault |-> r.bFault, Triangles |-> r.Triangles]

(***************************************************************************)
(* The cube specification: ProcessCube on every combination of corner      *)
(* densities below, at and above the iso-value                              *)
(***************************************************************************)
CornerValues == {0, MCConfig.IsoValue, 2 * MCConfig.IsoValue}

InitCube ==
    /\ StoreIdle
    /\ JobsIdle
    /\ TrackingIdle
    /\ GeneratorIdle
    /\ Points = << >>
    /\ meshSync = None
    /\ meshAsync = None
    /\ \E val \in [0..7 -> CornerValues] :
           /\ Cardinality({k \in 0..7 : val[k] = MCConfig.IsoValue}) <= MaxAtIso
           /\ Cube = [k \in 0..7 |-> FVoxel(val[k], CornerPosition[k])]
    /\ cubeResult = None
    /\ mcRuns = << >>

\* FMarchingCubesGenerator::ProcessCube on Cube
CallProcessCube ==
    /\ cubeResult = None
    /\ \E r \in ProcessCube(Cube, MCConfig.IsoValue) :
           cubeResult' = Returned("ProcessCube", r)
    /\ UNCHANGED <<storeVars, queryVars, jobVars, trackVars, genVars, Points, meshSync, meshAsync, Cube, mcRuns>>

NextCube == CallProcessCube

SpecCube == InitCube /\ [][NextCube]_vars

Below(k) == Cube[k].Value < MCConfig.IsoValue

Above(k) == Cube[k].Value > MCConfig.IsoValue

\* C5: ProcessCube emits no triangle when all 8 corner densities are below
\* the iso-value, and exactly 3 triangle vertices (one triangle) when exactly
\* one corner is above the iso-value and the other seven are below.
C5_CubeBoundaryCases ==
    cubeResult # None =>
        /\ (\A k \in 0..7 : Below(k)) =>
               (~cubeResult.bFault /\ NumTriangles(cubeResult.Triangles) = 0)
        /\ (\E a \in 0..7 : Above(a) /\ \A k \in (0..7) \ {a} : Below(k)) =>
               (~cubeResult.bFault /\ 3 * NumTriangles(cubeResult.Triangles) = 3)

\* C33: for every corner classification, the triangle loop of ProcessCube
\* ends at a -1 of the classification's own TriTable row: the call does not
\* fault, emits at most 5 triangles, and every vertex of every triangle is
\* the interpolated vertex of an edge that EdgeTable marks active (none is
\* an unset VertList entry or a read outside the table).
C33_TriangleLoopStaysInRow ==
    cubeResult # None =>
        /\ ~cubeResult.bFault
        /\ NumTriangles(cubeResult.Triangles) <= 5
        /\ \A r \in DOMAIN cubeResult.Triangles : \A j \in 1..3 :
               cubeResult.Triangles[r].tri.Vertices[j] \notin Garbage

(***************************************************************************)
(* The extraction specification: GenerateFromBitmapPoints run repeatedly   *)
(* on one point list, with other calls on the generator in between          *)
(***************************************************************************)
InitMC ==
    /\ StoreIdle
    /\ JobsIdle
    /\ TrackingIdle
    /\ GeneratorIdle
    /\ Points \in SeqsUpTo({FBitmapPoint(pos, 0) : pos \in ReconSites}, MaxMCPoints)
    /\ meshSync = None
    /\ meshAsync = None
    /\ Cube = << >>
    /\ cubeResult = None
    /\ mcRuns = << >>

\* FMarchingCubesGenerator::GenerateFromBitmapPoints on Points with MCConfig
CallGenerateFromBitmapPoints ==
    /\ Len(mcRuns) < MaxRuns
    /\ \E r \in GenerateFromBitmapPoints(Points, MCConfig) :
           mcRuns' = Append(mcRuns, Returned("GenerateFromBitmapPoints", r))
    /\ UNCHANGED <<storeVars, queryVars, jobVars, trackVars, genVars, Points, meshSync, meshAsync, Cube, cubeResult>>

\* another call on the generator in between: ProcessCube on a cube that is
\* all below the iso-value, or all below but for corner 0
CallProcessCubeBetween ==
    \E v \in {0, 2 * MCConfig.IsoValue} :
        LET other == [k \in 0..7 |-> FVoxel(IF k = 0 THEN v ELSE 0, CornerPosition[k])]
        IN  /\ Cube' = other
            /\ \E r \in ProcessCube(other, MCConfig.IsoValue) :
                   cubeResult' = Returned("ProcessCube", r)
            /\ UNCHANGED <<storeVars, queryVars, jobVars, trackVars, genVars, Points, meshSync, meshAsync, mcRuns>>

NextMC ==
    \/ CallGenerateFromBitmapPoints
    \/ CallProcessCubeBetween

SpecMC == InitMC /\ [][NextMC]_vars

\* C6: GenerateFromBitmapPoints is deterministic and stateless: any two runs
\* on the same point list and config return identical triangle lists,
\* whatever calls were made on the generator in between.
C6_Deterministic ==
    \A i, j \in DOMAIN mcRuns : mcRuns[i] = mcRuns[j]

(***************************************************************************)
(* Asynchronous mesh generation: UMeshGenerationManager and the worker     *)
(* threads that run FMeshGenerationTask.  Progress is in percent, as the   *)
(* task's counter keeps it; FMeshGenerationJobInfo::Progress is that       *)
(* number divided by 100.  One unit of the clock is 30 seconds.            *)
(***************************************************************************)
TaskTypes == {"PointCloud", "Mesh", "Voxel", "MarchingCubes"}

\* the job ids that GenerateJobID hands out: the counter starts at 1 and is
\* incremented before it is returned
JobIDs == 2..(MaxJobs + 1)

\* the store, the index, the queries and the reconstruction results, but
\* for the clock
notJobVars == <<storeState, queryVars, reconVars, trackVars, genVars>>

AutoCleanupDelaySeconds == 1

MaxQueuedJobs == 10

\* the point lists that jobs are submitted with
JobPoints ==
    {<< >>,
     <<FBitmapPoint(CornerPosition[0], 0)>>,
     <<FBitmapPoint(EdgeMidpoint, 0)>>,
     <<FBitmapPoint(CornerPosition[5], 0), FBitmapPoint(CornerPosition[6], 0),
       FBitmapPoint(CornerPosition[7], 0)>>}

\* FMeshGenerationResult: the length of the index buffer and TriangleCount
FMeshGenerationResult(NumIndices, TriangleCount) ==
    [Triangles |-> NumIndices, TriangleCount |-> TriangleCount]

\* FMeshGenerationTask::FMeshGenerationTask; pc is the position of the
\* worker thread, MCTriangles the local of GenerateMarchingCubesMesh
FMeshGenerationTask(InPoints, InTaskType) ==
    [Points |-> InPoints, TaskType |-> InTaskType,
     Status |-> "Pending", Progress |-> 0, bShouldCancel |-> FALSE,
     bSuccess |-> FALSE, MCTriangles |-> 0,
     Result |-> FMeshGenerationResult(0, 0), pc |-> "Created"]

\* FMeshGenerationJob as SubmitMeshGenerationJob fills it in
FMeshGenerationJob(JobID, InPoints, TaskType) ==
    [JobID |-> JobID,
     Task |-> FMeshGenerationTask(InPoints, TaskType),
     Info |-> [Status |-> "Pending", Progress |-> 0, CompletionTime |-> 0],
     Result |-> FMeshGenerationResult(0, 0),
     bResultReady |-> FALSE]

\* UMeshGenerationManager::CanStartNewJob
CanStartNewJob ==
    LET RunningJobs ==
            Cardinality({id \in DOMAIN ActiveJobs : ActiveJobs[id].Task.Status = "Running"})
    IN  RunningJobs < MaxWorkerThreads /\ Cardinality(DOMAIN ActiveJobs) < MaxQueuedJobs

\* UMeshGenerationManager::GetJob: the job, or None
GetJob(JobID) ==
    IF JobID \in DOMAIN ActiveJobs THEN ActiveJobs[JobID]
    ELSE IF JobID \in DOMAIN CompletedJobs THEN CompletedJobs[JobID]
    ELSE None

\* a map without the keys in ids
WithoutKeys(map, ids) == [id \in DOMAIN map \ ids |-> map[id]]

\* CleanupCompletedJobs that removes every job completed before this call
CleanupCompletedJobs_NoGrace(Completed, LastCleanup, CurrentTime) ==
    IF CurrentTime - LastCleanup < AutoCleanupDelaySeconds
    THEN [CompletedJobs |-> Completed, LastCleanupTime |-> LastCleanup]
    ELSE LET JobsToRemove ==
                 {id \in DOMAIN Completed : Completed[id].Info.CompletionTime < CurrentTime}
         IN  [CompletedJobs |-> WithoutKeys(Completed, JobsToRemove),
              LastCleanupTime |-> CurrentTime]

\* UMeshGenerationManager::CleanupCompletedJobs: the completed jobs and the
\* time of the last cleanup after the call
CleanupCompletedJobs(Completed, LastCleanup, CurrentTime) ==
    IF CurrentTime - LastCleanup < AutoCleanupDelaySeconds
    THEN [CompletedJobs |-> Completed, LastCleanupTime |-> LastCleanup]
    ELSE LET JobsToRemove ==
                 {id \in DOMAIN Completed :
                     CurrentTime - Completed[id].Info.CompletionTime > AutoCleanupDelaySeconds}
         IN  [CompletedJobs |-> WithoutKeys(Completed, JobsToRemove),
              LastCleanupTime |-> CurrentTime]

\* the index buffer of GeneratePointCloudMesh: 12 triangles for every point
PointCloudIndices(pts) == Len(pts) * 12 * 3

\* the TSet VoxelSet of GenerateVoxelMesh
VoxelSet(pts, VoxelSize) ==
    {<<pts[i].Position[1] \div VoxelSize, pts[i].Position[2] \div VoxelSize,
       pts[i].Position[3] \div VoxelSize>> : i \in DOMAIN pts}

\* the index buffer of GenerateVoxelMesh: 12 triangles for every voxel
VoxelIndices(pts, VoxelSize) == Cardinality(VoxelSet(pts, VoxelSize)) * 12 * 3

\* what the extraction of GenerateMarchingCubesMesh can return for each of
\* the point lists: whether it faulted, and MCTriangles.Num()
MCTrianglesOf ==
    [pts \in JobPoints |->
        {[bFault |-> r.bFault, Num |-> NumTriangles(r.Triangles)] :
            r \in GenerateFromBitmapPoints(pts, MCConfig)}]

\* the status that ends Run with a branch condition that lost its negation
FinalStatus_LostNegation(bSuccess, bShouldCancel) ==
    IF bSuccess /\ bShouldCancel THEN "Completed"
    ELSE IF bShouldCancel THEN "Cancelled"
    ELSE "Failed"

\* the status that ends FMeshGenerationTask::Run
FinalStatus(bSuccess, bShouldCancel) ==
    IF bSuccess /\ ~bShouldCancel THEN "Completed"
    ELSE IF bShouldCancel THEN "Cancelled"
    ELSE "Failed"

\* the manager after Initialize, with no job submitted yet
InitJobs ==
    /\ StoreIdle
    /\ ReconIdle
    /\ TrackingIdle
    /\ GeneratorIdle
    /\ NextJobID = 1
    /\ ActiveJobs = << >>
    /\ CompletedJobs = << >>
    /\ MaxWorkerThreads \in 1..MaxWorkers
    /\ ManagerLastCleanupTime = 0
    /\ lastInfo = None
    /\ lastSubmit = None
    /\ issuedIDs = << >>
    /\ lastResult = None
    /\ UnlockedAccesses = {}

\* an access to the job registry: the member or job field, whether it is
\* read or written, and whether the thread holds JobsMutex
Access(Field, Kind, bLocked) == [Field |-> Field, Kind |-> Kind, bLocked |-> bLocked]

\* the operation made these accesses
Logged(Accesses) ==
    UnlockedAccesses' = UnlockedAccesses \cup {a \in Accesses : ~a.bLocked}

\* CanStartNewJob, and ActiveJobs.Add for a job whose thread was created
Submit_Accesses(bStarted) ==
    {Access("ActiveJobs", "read", TRUE)}
        \cup (IF bStarted THEN {Access("ActiveJobs", "write", TRUE)} ELSE {})

CancelJob_Accesses ==
    {Access("ActiveJobs", "read", TRUE), Access("Info", "write", TRUE)}

GetJob_Accesses ==
    {Access("ActiveJobs", "read", TRUE), Access("CompletedJobs", "read", TRUE)}

\* GetJobInfo takes the job from GetJob, which has released JobsMutex when
\* it returns, and then updates and copies the job's Info
GetJobInfo_Accesses ==
    GetJob_Accesses \cup {Access("Info", "write", FALSE), Access("Info", "read", FALSE)}

\* GetJobResult takes the job from GetJob as well
GetJobResult_Accesses(bReturned) ==
    GetJob_Accesses \cup {Access("bResultReady", "read", FALSE)}
        \cup (IF bReturned THEN {Access("Result", "read", FALSE)} ELSE {})

\* OnJobCompleted with CleanupCompletedJobs
OnJobCompleted_Accesses ==
    {Access("ActiveJobs", "read", TRUE), Access("Info", "write", TRUE),
     Access("Result", "write", TRUE), Access("bResultReady", "write", TRUE),
     Access("ActiveJobs", "write", TRUE), Access("CompletedJobs", "write", TRUE),
     Access("CompletedJobs", "read", TRUE), Access("Info", "read", TRUE)}

\* the thread of an active job takes a step that leaves its task as Task
TaskStep(JobID, Task) ==
    /\ ActiveJobs' = [ActiveJobs EXCEPT ![JobID].Task = Task]
    /\ UNCHANGED <<notJobVars, submitVars, now, NextJobID, CompletedJobs, MaxWorkerThreads,
                   ManagerLastCleanupTime, lastInfo, lastResult, UnlockedAccesses>>

\* GenerateJobID that reads the counter without incrementing it
GenerateJobID_NoIncrement(Counter) == Counter

\* UMeshGenerationManager::GenerateJobID: FThreadSafeCounter::Increment adds
\* one to the counter in one atomic step and returns the new value
GenerateJobID(Counter) == Counter + 1

\* SubmitMeshGenerationJob that registers the job before its thread is created
Submit_RegisterBeforeThread(InPoints, TaskType, bThreadCreated) ==
    LET bRefused == ~CanStartNewJob \/ InPoints = << >>
        JobID    == GenerateJobID(NextJobID)
        bStarted == ~bRefused /\ bThreadCreated
        Active   == IF ~bRefused
                    THEN ActiveJobs @@ (JobID :> FMeshGenerationJob(JobID, InPoints, TaskType))
                    ELSE ActiveJobs
    IN  /\ NextJobID' = IF bRefused THEN NextJobID ELSE JobID
        /\ ActiveJobs' = Active
        /\ lastSubmit' = [op |-> "SubmitMeshGenerationJob",
                          Result |-> IF bStarted THEN JobID ELSE -1,
                          bCapReached |-> ~CanStartNewJob,
                          bNoPoints |-> InPoints = << >>,
                          bThreadFailed |-> ~bRefused /\ ~bThreadCreated,
                          bThreadStarted |-> bStarted,
                          bRegistryChanged |-> Active # ActiveJobs]
        /\ issuedIDs' = IF bStarted THEN Append(issuedIDs, JobID) ELSE issuedIDs
        /\ Logged(Submit_Accesses(bStarted))
        /\ UNCHANGED <<now, CompletedJobs, MaxWorkerThreads,
                       ManagerLastCleanupTime, lastInfo, lastResult>>

\* UMeshGenerationManager::SubmitMeshGenerationJob called with InPoints and
\* TaskType; bThreadCreated tells whether FRunnableThread::Create returns a
\* thread.  A submission whose thread cannot be created has used up a job id.
Submit(InPoints, TaskType, bThreadCreated) ==
    LET bRefused == ~CanStartNewJob \/ InPoints = << >>
        JobID    == GenerateJobID(NextJobID)
        bStarted == ~bRefused /\ bThreadCreated
        Active   == IF bStarted
                    THEN ActiveJobs @@ (JobID :> FMeshGenerationJob(JobID, InPoints, TaskType))
                    ELSE ActiveJobs
    IN  /\ NextJobID' = IF bRefused THEN NextJobID ELSE JobID
        /\ ActiveJobs' = Active
        /\ lastSubmit' = [op |-> "SubmitMeshGenerationJob",
                          Result |-> IF bStarted THEN JobID ELSE -1,
                          bCapReached |-> ~CanStartNewJob,
                          bNoPoints |-> InPoints = << >>,
                          bThreadFailed |-> ~bRefused /\ ~bThreadCreated,
                          bThreadStarted |-> bStarted,
                          bRegistryChanged |-> Active # ActiveJobs]
        /\ issuedIDs' = IF bStarted THEN Append(issuedIDs, JobID) ELSE issuedIDs
        /\ Logged(Submit_Accesses(bStarted))
        /\ UNCHANGED <<now, CompletedJobs, MaxWorkerThreads,
                       ManagerLastCleanupTime, lastInfo, lastResult>>

\* a caller submits a job of any type
SubmitMeshGenerationJob ==
    \E InPoints \in JobPoints, TaskType \in TaskTypes, bThreadCreated \in BOOLEAN :
        /\ NextJobID <= MaxJobs
        /\ Submit(InPoints, TaskType, bThreadCreated)
        /\ UNCHANGED notJobVars

\* FMeshGenerationTask::Init on the new thread
TaskInit(id) ==
    /\ id \in DOMAIN ActiveJobs
    /\ LET t == ActiveJobs[id].Task
       IN  /\ t.pc = "Created"
           /\ TaskStep(id, [t EXCEPT !.Status = "Running", !.pc = "Run"])

\* Run: UpdateProgress(0.1) and the cancellation check before the heavy
\* work, which returns without the completion callback
Run_Start(id) ==
    /\ id \in DOMAIN ActiveJobs
    /\ LET t == ActiveJobs[id].Task
       IN  /\ t.pc = "Run"
           /\ TaskStep(id, IF t.bShouldCancel
                           THEN [t EXCEPT !.Progress = 10, !.Status = "Cancelled",
                                          !.pc = "Exited"]
                           ELSE [t EXCEPT !.Progress = 10, !.pc = "Generate"])

\* Run: the generator up to and with its first poll of ShouldCancel; the
\* default branch of the switch, for a task type that is none of TaskTypes,
\* only sets bSuccess to false
Run_GenerateBegin(id) ==
    /\ id \in DOMAIN ActiveJobs
    /\ LET t == ActiveJobs[id].Task
           bTooFew == t.TaskType = "Mesh"
                      /\ ~GenerateTriangulatedMesh(t.Points, FALSE).bSuccess
       IN  /\ t.pc = "Generate"
           /\ TaskStep(id, IF t.TaskType \notin TaskTypes
                           THEN [t EXCEPT !.bSuccess = FALSE, !.pc = "Generated"]
                           ELSE IF bTooFew \/ t.bShouldCancel
                           THEN [t EXCEPT !.Progress = 20, !.bSuccess = FALSE,
                                          !.pc = "Generated"]
                           ELSE [t EXCEPT !.Progress = IF t.TaskType = "MarchingCubes"
                                                       THEN 30 ELSE 20,
                                          !.pc = "Generating"])

\* Run: the rest of the generator.  GenerateVoxelMesh polls ShouldCancel once
\* more, before its first voxel; GenerateMarchingCubesMesh polls after the
\* extraction, which may also fault.
Run_GenerateEnd(id) ==
    /\ id \in DOMAIN ActiveJobs
    /\ LET t == ActiveJobs[id].Task
           done(n) == [t EXCEPT !.Progress = 80, !.bSuccess = TRUE,
                                !.Result = FMeshGenerationResult(n, 0), !.pc = "Generated"]
           failed(p) == [t EXCEPT !.Progress = p, !.bSuccess = FALSE, !.pc = "Generated"]
       IN  /\ t.pc = "Generating"
           /\ CASE t.TaskType = "PointCloud" ->
                       TaskStep(id, done(PointCloudIndices(t.Points)))
                [] t.TaskType = "Mesh" ->
                       TaskStep(id, done(Len(GenerateTriangulatedMesh(t.Points, FALSE).Triangles)))
                [] t.TaskType = "Voxel" ->
                       TaskStep(id, IF t.bShouldCancel THEN failed(40)
                                    ELSE done(VoxelIndices(t.Points, MCConfig.VoxelSize)))
                [] t.TaskType = "MarchingCubes" ->
                       \E r \in MCTrianglesOf[t.Points] :
                           TaskStep(id,
                               IF r.bFault THEN [t EXCEPT !.pc = "Crashed"]
                               ELSE IF t.bShouldCancel THEN failed(30)
                               ELSE IF r.Num = 0 THEN failed(70)
                               ELSE [t EXCEPT !.Progress = 70,
                                              !.MCTriangles = r.Num,
                                              !.pc = "Converting"])

\* Run: the conversion loop of GenerateMarchingCubesMesh, which polls
\* ShouldCancel at its first triangle
Run_Convert(id) ==
    /\ id \in DOMAIN ActiveJobs
    /\ LET t == ActiveJobs[id].Task
       IN  /\ t.pc = "Converting"
           /\ TaskStep(id, IF t.bShouldCancel
                           THEN [t EXCEPT !.bSuccess = FALSE, !.pc = "Generated"]
                           ELSE [t EXCEPT !.Progress = 80, !.bSuccess = TRUE,
                                          !.Result = FMeshGenerationResult(3 * t.MCTriangles, 0),
                                          !.pc = "Generated"])

\* Run: UpdateProgress(0.9)
Run_Progress90(id) ==
    /\ id \in DOMAIN ActiveJobs
    /\ LET t == ActiveJobs[id].Task
       IN  /\ t.pc = "Generated"
           /\ TaskStep(id, [t EXCEPT !.Progress = 90, !.pc = "Finalize"])

\* Run: the results are finalized and the status is set
Run_Finalize(id) ==
    /\ id \in DOMAIN ActiveJobs
    /\ LET t == ActiveJobs[id].Task
           NewStatus == FinalStatus(t.bSuccess, t.bShouldCancel)
       IN  /\ t.pc = "Finalize"
           /\ TaskStep(id, [t EXCEPT !.Status = NewStatus,
                                     !.Result.TriangleCount =
                                         IF NewStatus = "Completed"
                                         THEN t.Result.Triangles \div 3 ELSE 0,
                                     !.pc = "Finalized"])

\* Run: UpdateProgress(1.0)
Run_Progress100(id) ==
    /\ id \in DOMAIN ActiveJobs
    /\ LET t == ActiveJobs[id].Task
       IN  /\ t.pc = "Finalized"
           /\ TaskStep(id, [t EXCEPT !.Progress = 100, !.pc = "Notify"])

\* Run that calls the completion callback itself, on the worker thread
Run_Notify_OnWorker(id) ==
    /\ id \in DOMAIN ActiveJobs
    /\ LET Job == ActiveJobs[id]
           Done == [Job EXCEPT !.Info.Status = IF Job.Task.bSuccess THEN "Completed"
                                               ELSE "Failed",
                               !.Info.Progress = 100,
                               !.Info.CompletionTime = now,
                               !.Result = Job.Task.Result,
                               !.bResultReady = TRUE,
                               !.Task.pc = "Exited"]
       IN  /\ Job.Task.pc = "Notify"
           /\ ActiveJobs' = WithoutKeys(ActiveJobs, {id})
           /\ CompletedJobs' = CompletedJobs @@ (id :> Done)
           /\ UNCHANGED <<notJobVars, submitVars, now, NextJobID, MaxWorkerThreads,
                          ManagerLastCleanupTime, lastInfo, lastResult, UnlockedAccesses>>

\* Run: the completion callback is queued for the game thread
Run_Notify(id) ==
    /\ id \in DOMAIN ActiveJobs
    /\ LET t == ActiveJobs[id].Task
       IN  /\ t.pc = "Notify"
           /\ TaskStep(id, [t EXCEPT !.pc = "CallbackQueued"])

\* UMeshGenerationManager::OnJobCompleted, run by the game thread for a
\* queued callback, with the cleanup of completed jobs that ends it
OnJobCompleted(id) ==
    /\ id \in DOMAIN ActiveJobs
    /\ LET Job == ActiveJobs[id]
           Done == [Job EXCEPT !.Info.Status = IF Job.Task.bSuccess THEN "Completed"
                                               ELSE "Failed",
                               !.Info.Progress = 100,
                               !.Info.CompletionTime = now,
                               !.Result = Job.Task.Result,
                               !.bResultReady = TRUE,
                               !.Task.pc = "Exited"]
           Cleaned == CleanupCompletedJobs(CompletedJobs @@ (id :> Done),
                                           ManagerLastCleanupTime, now)
       IN  /\ Job.Task.pc = "CallbackQueued"
           /\ ActiveJobs' = WithoutKeys(ActiveJobs, {id})
           /\ CompletedJobs' = Cleaned.CompletedJobs
           /\ ManagerLastCleanupTime' = Cleaned.LastCleanupTime
           /\ Logged(OnJobCompleted_Accesses)
           /\ UNCHANGED <<notJobVars, submitVars, now, NextJobID, MaxWorkerThreads, lastInfo,
                          lastResult>>

\* what CancelJob does to an active job: Task->Cancel() and the Info update
Cancelled(Job) ==
    [Job EXCEPT !.Task.bShouldCancel = TRUE,
                !.Info.Status = "Cancelled",
                !.Info.CompletionTime = now]

\* UMeshGenerationManager::CancelJob on an active job (on any other id it
\* returns false and changes nothing)
CancelJob(id) ==
    /\ id \in DOMAIN ActiveJobs
    /\ ActiveJobs' = [ActiveJobs EXCEPT ![id] = Cancelled(ActiveJobs[id])]
    /\ Logged(CancelJob_Accesses)
    /\ UNCHANGED <<notJobVars, submitVars, now, NextJobID, CompletedJobs, MaxWorkerThreads,
                   ManagerLastCleanupTime, lastInfo, lastResult>>

\* what GetJobInfo hands back: OutJobInfo, and whether the progress is lower
\* than in the call before, if that was for the same job
Observed(JobID, bFound, Info) ==
    [op |-> "GetJobInfo", JobID |-> JobID, bFound |-> bFound,
     Progress |-> Info.Progress, Status |-> Info.Status,
     bRegressed |-> /\ bFound
                    /\ lastInfo # None
                    /\ lastInfo.JobID = JobID
                    /\ lastInfo.bFound
                    /\ Info.Progress < lastInfo.Progress]

\* UMeshGenerationManager::GetJobInfo: refreshes the job's Info from its task
\* and returns it
GetJobInfo_Manager(id) ==
    LET Job == GetJob(id)
        Info == [Job.Info EXCEPT !.Progress = Job.Task.Progress,
                                 !.Status = Job.Task.Status]
    IN  IF Job = None
        THEN /\ lastInfo' = Observed(id, FALSE, [Progress |-> 0, Status |-> "Pending"])
             /\ Logged(GetJob_Accesses)
             /\ UNCHANGED <<submitVars, now, NextJobID, ActiveJobs, CompletedJobs,
                            MaxWorkerThreads, ManagerLastCleanupTime, lastResult>>
        ELSE /\ lastInfo' = Observed(id, TRUE, Info)
             /\ IF id \in DOMAIN ActiveJobs
                THEN /\ ActiveJobs' = [ActiveJobs EXCEPT ![id].Info = Info]
                     /\ UNCHANGED CompletedJobs
                ELSE /\ CompletedJobs' = [CompletedJobs EXCEPT ![id].Info = Info]
                     /\ UNCHANGED ActiveJobs
             /\ Logged(GetJobInfo_Accesses)
             /\ UNCHANGED <<submitVars, now, NextJobID, MaxWorkerThreads,
                            ManagerLastCleanupTime, lastResult>>

\* a caller of the manager asks for the Info of job id
GetJobInfo(id) == GetJobInfo_Manager(id) /\ UNCHANGED notJobVars

\* UMeshGenerationManager::GetJobResult: hands out the result of a job whose
\* result is ready
GetJobResult(id) ==
    LET Job == GetJob(id)
        bReturned == Job # None /\ Job.bResultReady
    IN  /\ lastResult' = [op |-> "GetJobResult", JobID |-> id, bReturned |-> bReturned,
                          Status |-> IF Job = None THEN "None" ELSE Job.Info.Status,
                          TaskStatus |-> IF Job = None THEN "None" ELSE Job.Task.Status,
                          OutResult |-> IF bReturned THEN Job.Result
                                        ELSE FMeshGenerationResult(0, 0)]
        /\ Logged(IF Job = None THEN GetJob_Accesses ELSE GetJobResult_Accesses(bReturned))
        /\ UNCHANGED <<notJobVars, submitVars, now, NextJobID, ActiveJobs, CompletedJobs,
                       MaxWorkerThreads, ManagerLastCleanupTime, lastInfo>>

\* the clock of FPlatformTime::Seconds advances
JobsAdvanceTime ==
    /\ now < MaxTime
    /\ now' = now + 1
    /\ UNCHANGED <<notJobVars, jobVars>>

\* a step of the worker thread of job id
WorkerStep(id) ==
    \/ TaskInit(id)
    \/ Run_Start(id)
    \/ Run_GenerateBegin(id)
    \/ Run_GenerateEnd(id)
    \/ Run_Convert(id)
    \/ Run_Progress90(id)
    \/ Run_Finalize(id)
    \/ Run_Progress100(id)
    \/ Run_Notify(id)

\* the life of the jobs: submission, the worker threads, completion and
\* cancellation
NextJobs ==
    \/ SubmitMeshGenerationJob
    \/ \E id \in JobIDs : TaskInit(id)
    \/ \E id \in JobIDs : Run_Start(id)
    \/ \E id \in JobIDs : Run_GenerateBegin(id)
    \/ \E id \in JobIDs : Run_GenerateEnd(id)
    \/ \E id \in JobIDs : Run_Convert(id)
    \/ \E id \in JobIDs : Run_Progress90(id)
    \/ \E id \in JobIDs : Run_Finalize(id)
    \/ \E id \in JobIDs : Run_Progress100(id)
    \/ \E id \in JobIDs : Run_Notify(id)
    \/ \E id \in JobIDs : OnJobCompleted(id)
    \/ \E id \in JobIDs : CancelJob(id)

SpecJobs == InitJobs /\ [][NextJobs]_vars

\* every worker thread is scheduled again and again, and the game thread
\* runs the callbacks queued for it
SpecJobsFair ==
    /\ SpecJobs
    /\ \A id \in JobIDs : WF_vars(WorkerStep(id))
    /\ \A id \in JobIDs : WF_vars(OnJobCompleted(id))

\* C35: a cancellation releases the job's slot: every active job whose
\* cancellation was requested, also one whose worker had not yet begun the
\* heavy work, eventually leaves the registry of active jobs.
C35_CancelledJobLeavesActive ==
    \A id \in JobIDs :
        (id \in DOMAIN ActiveJobs /\ ActiveJobs[id].Task.bShouldCancel)
            ~> (id \notin DOMAIN ActiveJobs)

\* the jobs with a caller that polls GetJobInfo while the clock runs
NextJobInfo ==
    \/ SubmitMeshGenerationJob
    \/ \E id \in JobIDs : TaskInit(id)
    \/ \E id \in JobIDs : Run_Start(id)
    \/ \E id \in JobIDs : Run_GenerateBegin(id)
    \/ \E id \in JobIDs : Run_GenerateEnd(id)
    \/ \E id \in JobIDs : Run_Convert(id)
    \/ \E id \in JobIDs : Run_Progress90(id)
    \/ \E id \in JobIDs : Run_Finalize(id)
    \/ \E id \in JobIDs : Run_Progress100(id)
    \/ \E id \in JobIDs : Run_Notify(id)
    \/ \E id \in JobIDs : OnJobCompleted(id)
    \/ \E id \in JobIDs : CancelJob(id)
    \/ \E id \in JobIDs : GetJobInfo(id)
    \/ \E id \in JobIDs : GetJobResult(id)
    \/ JobsAdvanceTime

SpecJobInfo == InitJobs /\ [][NextJobInfo]_vars

(***************************************************************************)
(* Submissions: a caller that submits point-cloud jobs one after another   *)
(* while the workers of the accepted ones run                              *)
(***************************************************************************)
MaxSubmissions == 2     \* job ids are handed out while the id counter is at most MaxSubmissions

SubmitIDs == 2..(MaxSubmissions + 1)

\* the point lists that the point-cloud jobs are submitted with
PointCloudJobPoints == {<< >>, <<FBitmapPoint(CornerPosition[0], 0)>>}

SubmitPointCloudJob ==
    \E InPoints \in PointCloudJobPoints, bThreadCreated \in BOOLEAN :
        /\ NextJobID <= MaxSubmissions
        /\ Submit(InPoints, "PointCloud", bThreadCreated)
        /\ UNCHANGED notJobVars

NextSubmit ==
    \/ SubmitPointCloudJob
    \/ \E id \in SubmitIDs : TaskInit(id)
    \/ \E id \in SubmitIDs : Run_Start(id)
    \/ \E id \in SubmitIDs : Run_GenerateBegin(id)
    \/ \E id \in SubmitIDs : Run_GenerateEnd(id)
    \/ \E id \in SubmitIDs : Run_Progress90(id)
    \/ \E id \in SubmitIDs : Run_Finalize(id)
    \/ \E id \in SubmitIDs : Run_Progress100(id)
    \/ \E id \in SubmitIDs : Run_Notify(id)
    \/ \E id \in SubmitIDs : OnJobCompleted(id)

SpecSubmit == InitJobs /\ [][NextSubmit]_vars

(***************************************************************************)
(* Properties of the jobs                                                  *)
(***************************************************************************)
TerminalStatuses == {"Completed", "Failed", "Cancelled"}

\* the algorithms that build the mesh from the points themselves
DirectTypes == {"PointCloud", "Mesh", "Voxel"}

\* the input is valid for the algorithm: three points for the fan, one for
\* the others
ValidInput(Task) ==
    IF Task.TaskType = "Mesh" THEN Len(Task.Points) >= 3 ELSE Len(Task.Points) >= 1

\* job id was accepted, was given valid input and no cancellation so far
ValidUncancelled(id) ==
    /\ GetJob(id) # None
    /\ ValidInput(GetJob(id).Task)
    /\ ~GetJob(id).Task.bShouldCancel

CancelRequested(id) == GetJob(id) # None /\ GetJob(id).Task.bShouldCancel

CompletedWithTriangles(id) ==
    /\ GetJob(id) # None
    /\ GetJob(id).Task.Status = "Completed"
    /\ GetJob(id).Task.Result.TriangleCount > 0

C10_ObservedProgress ==
    (lastInfo # None /\ lastInfo.bFound) =>
        /\ 0 <= lastInfo.Progress /\ lastInfo.Progress <= 100
        /\ ~lastInfo.bRegressed
        /\ lastInfo.Status = "Completed" => lastInfo.Progress = 100

\* C12: a job enters a terminal status once.  Once the status kept in the
\* registry for a job is Completed, Failed or Cancelled, no step changes it
\* while the job is in the registry; and once GetJobInfo has reported a
\* terminal status for a job, the next report for that job is the same.
C12_TerminalStatusIsFinal ==
    [][/\ \A id \in JobIDs :
              (/\ GetJob(id) # None
               /\ GetJob(id).Info.Status \in TerminalStatuses
               /\ GetJob(id)' # None)
                  => GetJob(id)'.Info.Status = GetJob(id).Info.Status
       /\ (/\ lastInfo # None
           /\ lastInfo.bFound
           /\ lastInfo.Status \in TerminalStatuses
           /\ lastInfo'.JobID = lastInfo.JobID
           /\ lastInfo'.bFound)
              => lastInfo'.Status = lastInfo.Status]_vars

\* the active jobs whose worker is in status Running
RunningJobs == {id \in DOMAIN ActiveJobs : ActiveJobs[id].Task.Status = "Running"}

CancelledInTime(id) ==
    /\ GetJob(id) # None
    /\ GetJob(id).Task.bShouldCancel
    /\ GetJob(id).Task.Status \notin {"Completed", "Failed"}

\* the worker of job id has left Run
WorkerExited(id) ==
    GetJob(id) # None /\ GetJob(id).Task.pc \in {"CallbackQueued", "Exited"}

\* C14: a job that was cancelled before it reached a terminal status is
\* never Completed or Failed, and once its worker has left Run its status, in
\* the task and in the registry, is Cancelled.
C14_CancelledJobEndsCancelled ==
    \A id \in JobIDs :
        CancelledInTime(id) =>
            /\ GetJob(id).Info.Status \notin {"Completed", "Failed"}
            /\ WorkerExited(id) =>
                   /\ GetJob(id).Task.Status = "Cancelled"
                   /\ GetJob(id).Info.Status = "Cancelled"

\* what belongs to the consumer (the game thread): the meshes, the two
\* registry maps and, of every job, all but its task
ConsumerState ==
    <<reconVars, DOMAIN ActiveJobs, CompletedJobs,
      [id \in DOMAIN ActiveJobs |->
          <<ActiveJobs[id].Info, ActiveJobs[id].Result, ActiveJobs[id].bResultReady>>],
      NextJobID, MaxWorkerThreads, ManagerLastCleanupTime>>

\* the tasks of the active jobs other than id
OtherTasks(id) == [j \in DOMAIN ActiveJobs \ {id} |-> ActiveJobs[j].Task]

\* C15: a step of a worker thread changes nothing but the status, progress
\* and result of its own task (and its position in Run); the meshes, the
\* registry maps and the jobs' Info, Result and bResultReady change only in
\* steps of the game thread, and a completion is delivered (the job leaves
\* ActiveJobs) only by the game thread running a callback that the worker
\* queued for it.
C15_WorkerLeavesConsumerState ==
    [][/\ \A id \in JobIDs :
              WorkerStep(id) =>
                  /\ ConsumerState' = ConsumerState
                  /\ OtherTasks(id)' = OtherTasks(id)
       /\ \A id \in DOMAIN ActiveJobs :
              id \notin DOMAIN ActiveJobs' =>
                  /\ ActiveJobs[id].Task.pc = "CallbackQueued"
                  /\ ~WorkerStep(id)
                  /\ id \in DOMAIN CompletedJobs' =>
                         CompletedJobs'[id].Result = ActiveJobs[id].Task.Result]_vars

\* a worker has run to the end of Run and the game thread has delivered its
\* completion
C15_Witness ==
    \E id \in DOMAIN CompletedJobs :
        /\ CompletedJobs[id].Task.TaskType = "PointCloud"
        /\ CompletedJobs[id].Task.pc = "Exited"
        /\ CompletedJobs[id].Task.Progress = 100
        /\ CompletedJobs[id].bResultReady

\* C16: every read and every write of the job registry (the maps ActiveJobs
\* and CompletedJobs and the Info, Result and bResultReady of their jobs) is
\* made by a thread that holds JobsMutex.
C16_RegistryUnderMutex == UnlockedAccesses = {}

\* C17: in every state of the point store the number of stored points is at
\* most the capacity when the capacity is above 0: an insert that would
\* exceed it evicts the excess before AddBitmapPoint or AddBitmapPoints
\* returns.
C17_CountWithinCapacity ==
    MaxBitmapPoints > 0 => Len(BitmapPoints) <= MaxBitmapPoints

\* C18: GetJobResult returns true only for a job whose status is Completed
\* or Failed; for a job that is Pending, Running or Cancelled it returns
\* false and hands out no result.
C18_ResultOnlyWhenDone ==
    (lastResult # None /\ lastResult.Status # "None") =>
        /\ lastResult.bReturned => lastResult.Status \in {"Completed", "Failed"}
        /\ lastResult.Status \in {"Pending", "Running", "Cancelled"} =>
               /\ ~lastResult.bReturned
               /\ lastResult.OutResult = FMeshGenerationResult(0, 0)

\* the jobs in the registry
RegisteredJobs == DOMAIN ActiveJobs \cup DOMAIN CompletedJobs

C20_RefusedSubmissionFailsClosed ==
    lastSubmit # None =>
        /\ lastSubmit.Result = -1 <=>
               (lastSubmit.bCapReached \/ lastSubmit.bNoPoints \/ lastSubmit.bThreadFailed)
        /\ lastSubmit.Result = -1 =>
               /\ ~lastSubmit.bRegistryChanged
               /\ ~lastSubmit.bThreadStarted
               /\ RegisteredJobs \subseteq Range(issuedIDs)

\* a submission was refused for want of a thread after an earlier one was
\* accepted, whose job is in the registry
C20_Witness ==
    /\ lastSubmit # None
    /\ lastSubmit.Result = -1
    /\ lastSubmit.bThreadFailed
    /\ issuedIDs = <<2>>
    /\ RegisteredJobs = {2}

(***************************************************************************)
(* Tracking session (UMRTrackingStateManager).  Confidence is in tenths;   *)
(* camera poses and the wall-clock fields (session duration, uptime, the   *)
(* times of the last loss and recovery) are left out: no state transition  *)
(* or broadcast depends on them.                                           *)
(***************************************************************************)
MaxUpdates == 3         \* UpdateTrackingState is called while fewer samples were taken

MaxHistorySize == 100

\* ETrackingState
TrackingStates == {"NotTracking", "LimitedTracking", "FullTracking", "TrackingLost"}

\* the confidences callers report, in tenths: one below and one above the valid range
ConfidenceInputs == {-1, 3, 7, 12}

\* FMath::Clamp
Clamp(x, lo, hi) == IF x < lo THEN lo ELSE IF x > hi THEN hi ELSE x

CalculateTrackingQuality(Confidence) ==
    IF Confidence >= ExcellentQualityThreshold THEN "Excellent"
    ELSE IF Confidence >= NormalQualityThreshold THEN "Normal"
    ELSE IF Confidence >= LimitedQualityThreshold THEN "Limited"
    ELSE "None"

FTrackingStateEntry(State, Confidence) == [State |-> State, Confidence |-> Confidence]

AddToHistory(History, State, Confidence) ==
    LET added == Append(History, FTrackingStateEntry(State, Confidence))
    IN  IF Len(added) > MaxHistorySize THEN Tail(added) ELSE added

\* the device has a pose in this state
HasTracking(State) == State \in {"FullTracking", "LimitedTracking"}

\* the session after the transition, and the delegates that were broadcast
HandleStateTransition_AnyLoss(Info, OldState, NewState) ==
    IF ~HasTracking(NewState)
    THEN [Info   |-> [Info EXCEPT !.TrackingInterruptions = @ + 1],
          Events |-> {"OnTrackingLost", "OnTrackingStateChanged"}]
    ELSE IF ~HasTracking(OldState) /\ HasTracking(NewState)
    THEN [Info |-> Info, Events |-> {"OnTrackingRecovered", "OnTrackingStateChanged"}]
    ELSE [Info |-> Info, Events |-> {"OnTrackingStateChanged"}]

HandleStateTransition(Info, OldState, NewState) ==
    IF HasTracking(OldState) /\ ~HasTracking(NewState)
    THEN [Info   |-> [Info EXCEPT !.TrackingInterruptions = @ + 1],
          Events |-> {"OnTrackingLost", "OnTrackingStateChanged"}]
    ELSE IF ~HasTracking(OldState) /\ HasTracking(NewState)
    THEN [Info |-> Info, Events |-> {"OnTrackingRecovered", "OnTrackingStateChanged"}]
    ELSE [Info |-> Info, Events |-> {"OnTrackingStateChanged"}]

HandleQualityChange(OldQuality, NewQuality) == {"OnTrackingQualityChanged"}

\* the tracking session after Initialize
InitTracking ==
    /\ StoreIdle
    /\ lastQuery = NoQuery
    /\ ReconIdle
    /\ JobsIdle
    /\ TrackingIdle
    /\ GeneratorIdle

notTrackVars == <<storeVars, queryVars, reconVars, jobVars, genVars>>

UpdateTrackingState ==
    /\ ConfidenceSamples < MaxUpdates
    /\ \E NewState \in TrackingStates, Confidence \in ConfidenceInputs :
        LET OldState   == SessionInfo.TrackingState
            OldQuality == SessionInfo.TrackingQuality
            clamped    == Clamp(Confidence, 0, 10)
            NewQuality == CalculateTrackingQuality(clamped)
            updated    == [SessionInfo EXCEPT !.TrackingState = NewState,
                                              !.TrackingConfidence = clamped,
                                              !.TrackingQuality = NewQuality]
            transition == IF OldState # NewState
                          THEN HandleStateTransition(updated, OldState, NewState)
                          ELSE [Info |-> updated, Events |-> {}]
            quality    == IF OldQuality # NewQuality
                          THEN HandleQualityChange(OldQuality, NewQuality)
                          ELSE {}
        IN  /\ SessionInfo' = transition.Info
            /\ StateHistory' = AddToHistory(StateHistory, NewState, clamped)
            /\ TotalConfidence' = TotalConfidence + clamped
            /\ ConfidenceSamples' = ConfidenceSamples + 1
            /\ trackLog' = Append(trackLog,
                   [OldState |-> OldState, NewState |-> NewState,
                    OldInterruptions |-> SessionInfo.TrackingInterruptions,
                    Interruptions |-> transition.Info.TrackingInterruptions,
                    Events |-> transition.Events \cup quality])
    /\ UNCHANGED <<notTrackVars, trackConfig>>

AttemptTrackingRecovery ==
    /\ StateHistory # << >>
    /\ StateHistory' = << >>
    /\ UNCHANGED <<notTrackVars, SessionInfo, TotalConfidence, ConfidenceSamples, trackLog,
                   trackConfig>>

ResetSession ==
    /\ trackLog # << >>
    /\ SessionInfo' = [TrackingState |-> "NotTracking", TrackingQuality |-> "None",
                       TrackingConfidence |-> 0, TrackingInterruptions |-> 0]
    /\ StateHistory' = << >>
    /\ TotalConfidence' = 0
    /\ ConfidenceSamples' = 0
    /\ trackLog' = << >>
    /\ UNCHANGED <<notTrackVars, trackConfig>>

NextTracking ==
    \/ UpdateTrackingState
    \/ AttemptTrackingRecovery
    \/ ResetSession

SpecTracking == InitTracking /\ [][NextTracking]_vars

\* the thresholds callers hand to SetQualityThresholds, in tenths
ThresholdInputs == -1..11

\* SetQualityThresholds that tests the limited threshold before it corrects
\* the normal one
SetQualityThresholds_LimitedFirst(ExcellentThreshold, NormalThreshold, LimitedThreshold) ==
    LET Excellent == Clamp(ExcellentThreshold, 0, 10)
        Normal    == Clamp(NormalThreshold, 0, 10)
        Limited   == Clamp(LimitedThreshold, 0, 10)
    IN  /\ ExcellentQualityThreshold' = Excellent
        /\ NormalQualityThreshold' = IF Normal >= Excellent THEN Excellent - 1 ELSE Normal
        /\ LimitedQualityThreshold' = IF Limited >= Normal THEN Normal - 1 ELSE Limited
        /\ UNCHANGED <<notTrackVars, SessionInfo, StateHistory, TotalConfidence,
                       ConfidenceSamples, trackLog>>

\* UMRTrackingStateManager::SetQualityThresholds; 0.1 is one tenth
SetQualityThresholds(ExcellentThreshold, NormalThreshold, LimitedThreshold) ==
    LET Excellent == Clamp(ExcellentThreshold, 0, 10)
        Normal    == Clamp(NormalThreshold, 0, 10)
        Limited   == Clamp(LimitedThreshold, 0, 10)
        Normal2   == IF Normal >= Excellent THEN Excellent - 1 ELSE Normal
        Limited2  == IF Limited >= Normal2 THEN Normal2 - 1 ELSE Limited
    IN  /\ ExcellentQualityThreshold' = Excellent
        /\ NormalQualityThreshold' = Normal2
        /\ LimitedQualityThreshold' = Limited2
        /\ UNCHANGED <<notTrackVars, SessionInfo, StateHistory, TotalConfidence,
                       ConfidenceSamples, trackLog>>

\* a caller sets the thresholds
CallSetQualityThresholds ==
    \E e \in ThresholdInputs, n \in ThresholdInputs, l \in ThresholdInputs :
        SetQualityThresholds(e, n, l)

NextThresholds == CallSetQualityThresholds

SpecThresholds == InitTracking /\ [][NextThresholds]_vars

\* C31: the stored thresholds are strictly descending, whatever three values
\* SetQualityThresholds was called with: Excellent > Normal > Limited.
C31_ThresholdsDescending ==
    /\ ExcellentQualityThreshold > NormalQualityThreshold
    /\ NormalQualityThreshold > LimitedQualityThreshold

\* all three inputs were equal to 0 or less, and both corrections were made
C31_Witness ==
    /\ ExcellentQualityThreshold = 0
    /\ NormalQualityThreshold = -1
    /\ LimitedQualityThreshold = -2

\* the update was a loss of tracking / a recovery of tracking
IsLoss(u) == HasTracking(u.OldState) /\ ~HasTracking(u.NewState)
IsRecovery(u) == ~HasTracking(u.OldState) /\ HasTracking(u.NewState)

\* C11: an update broadcasts the 'lost' event and adds one to the interruption
\* counter exactly when it takes the session from Full or Limited to Lost or
\* NotTracking, and broadcasts the 'recovered' event exactly when it takes it
\* from Lost or NotTracking to Full or Limited; every other update broadcasts
\* neither and leaves the counter alone.  Full -> Lost -> Full therefore gives
\* one 'lost', one 'recovered' and one interruption.
C11_LostAndRecoveredEvents ==
    /\ \A i \in DOMAIN trackLog :
        LET u == trackLog[i]
        IN  /\ ("OnTrackingLost" \in u.Events) <=> IsLoss(u)
            /\ ("OnTrackingRecovered" \in u.Events) <=> IsRecovery(u)
            /\ u.Interruptions = u.OldInterruptions + (IF IsLoss(u) THEN 1 ELSE 0)
    /\ \A i \in DOMAIN trackLog :
        (/\ i + 1 \in DOMAIN trackLog
         /\ trackLog[i].OldState = "FullTracking"
         /\ trackLog[i].NewState = "TrackingLost"
         /\ trackLog[i + 1].NewState = "FullTracking")
        => /\ Cardinality({j \in {i, i + 1} : "OnTrackingLost" \in trackLog[j].Events}) = 1
           /\ Cardinality({j \in {i, i + 1} : "OnTrackingRecovered" \in trackLog[j].Events}) = 1
           /\ trackLog[i + 1].Interruptions = trackLog[i].OldInterruptions + 1
    /\ SessionInfo.TrackingInterruptions =
           Cardinality({i \in DOMAIN trackLog : "OnTrackingLost" \in trackLog[i].Events})

\* the session went Full -> Lost -> Full
C11_Witness ==
    /\ Len(trackLog) = 3
    /\ trackLog[2].OldState = "FullTracking"
    /\ trackLog[2].NewState = "TrackingLost"
    /\ trackLog[3].NewState = "FullTracking"
    /\ SessionInfo.TrackingInterruptions = 1

(***************************************************************************)
(* UProceduralGenerator: the choice between synchronous and asynchronous   *)
(* generation, and the reaction to tracking loss and to changes of the     *)
(* tracking quality.  A mesh section is kept as the length of its index    *)
(* buffer.  The completion callback that GenerateAsyncFromBitmapPoints     *)
(* binds (ApplyAsyncResult) receives the success flag where it expects a   *)
(* job id, finds no result for it and leaves the generator as it is, so    *)
(* OnJobCompleted needs no step of the generator.                          *)
(***************************************************************************)
MaxGenJobs == 2         \* the generator submits jobs while the id counter is at most MaxGenJobs
MaxUpdateInterval == 10 \* UpdateTrackingQuality is called while the interval is at most this

GenJobIDs == 2..(MaxGenJobs + 1)

\* the values of EProceduralGenerationType, and one that is none of them
GenerationTypes == {"PointCloud", "Mesh", "Voxel", "Surface", "MarchingCubes"}

\* the point lists handed to the generator
GenPoints ==
    {<< >>,
     <<FBitmapPoint(CornerPosition[0], 0)>>,
     <<FBitmapPoint(CornerPosition[5], 0), FBitmapPoint(CornerPosition[6], 0),
       FBitmapPoint(CornerPosition[7], 0)>>}

\* the qualities handed to UpdateTrackingQuality; no two of them are exactly
\* 0.1 apart
QualityInputs == {-20, 50, 65, 72, 100}

\* what the generator's operations leave alone, but for the jobs
notGenVars == <<storeState, queryVars, reconVars, trackVars>>

\* ShouldUseAsyncGeneration that needs more points than the threshold
ShouldUseAsyncGeneration_Above(PointCount) ==
    bEnableAsyncGeneration /\ MeshGenerationManager /\ PointCount > AsyncGenerationThreshold

\* UProceduralGenerator::ShouldUseAsyncGeneration
ShouldUseAsyncGeneration(PointCount) ==
    bEnableAsyncGeneration /\ MeshGenerationManager /\ PointCount >= AsyncGenerationThreshold

\* UProceduralGenerator::GetTaskTypeFromGenerationType
GetTaskTypeFromGenerationType(Type) ==
    CASE Type = "PointCloud" -> "PointCloud"
      [] Type = "Mesh" -> "Mesh"
      [] Type = "Voxel" -> "Voxel"
      [] Type = "MarchingCubes" -> "MarchingCubes"
      [] OTHER -> "Mesh"

\* the switch of GenerateFromBitmapPoints that clears the mesh first
SyncSections_ClearFirst(Type, pts, Extracted, Sections) ==
    CASE Type = "PointCloud" -> <<PointCloudIndices(pts)>>
      [] Type \in {"Mesh", "Surface"} ->
             IF GenerateMesh(pts).bSection THEN <<Len(GenerateMesh(pts).Triangles)>>
             ELSE <<0>>
      [] Type = "Voxel" -> <<VoxelIndices(pts, MCConfig.VoxelSize)>>
      [] Type = "MarchingCubes" ->
             IF pts = << >> \/ Extracted.Num = 0 THEN << >> ELSE <<3 * Extracted.Num>>
      [] OTHER -> << >>

\* the switch of GenerateFromBitmapPoints: the mesh sections after the
\* algorithm of Type has run on pts.  GeneratePointCloud and GenerateVoxels
\* clear the mesh and create one section; GenerateMesh (also run for
\* Surface) clears it and creates a section for 3 points or more;
\* GenerateMarchingCubesInternal returns at once for no points, and
\* otherwise clears the mesh and creates a section if the extraction
\* (Extracted) returned a triangle; no other type has a case.
SyncSections(Type, pts, Extracted, Sections) ==
    CASE Type = "PointCloud" -> <<PointCloudIndices(pts)>>
      [] Type \in {"Mesh", "Surface"} ->
             IF GenerateMesh(pts).bSection THEN <<Len(GenerateMesh(pts).Triangles)>>
             ELSE << >>
      [] Type = "Voxel" -> <<VoxelIndices(pts, MCConfig.VoxelSize)>>
      [] Type = "MarchingCubes" ->
             IF pts = << >> THEN Sections
             ELSE IF Extracted.Num = 0 THEN << >>
             ELSE <<3 * Extracted.Num>>
      [] OTHER -> Sections

\* UProceduralGenerator::GenerateFromBitmapPoints(InPoints), called by op
\* while the generation type is Type, with GenerateAsyncFromBitmapPoints:
\* what it does to the jobs, the list of active jobs, the cache and the
\* mesh.  bThreadCreated is what the submission meets, Extracted what the
\* marching cubes extraction returns.  Inline lists the algorithms run on
\* the caller's thread, Submissions counts the calls of
\* SubmitMeshGenerationJob, Config is the configuration handed to the
\* extraction or to the job.
Generate(op, Type, InPoints, bThreadCreated, Extracted) ==
    LET bAsync == ShouldUseAsyncGeneration(Len(InPoints))
        Algorithms == IF Type \in GenerationTypes THEN <<Type>> ELSE << >>
        Call(Submissions, JobID, Inline) ==
            [op |-> op, Points |-> InPoints, Type |-> Type, bAsync |-> bAsync,
             Submissions |-> Submissions, JobID |-> JobID, Inline |-> Inline,
             Before |-> MeshSections, Config |-> MarchingCubesConfig]
        Sync(Submissions) ==
            /\ CachedPoints' = InPoints
            /\ MeshSections' = SyncSections(Type, InPoints, Extracted, MeshSections)
            /\ lastGen' = Call(Submissions, -1, Algorithms)
            /\ UNCHANGED ActiveAsyncJobs
    IN  IF bAsync
        THEN /\ NextJobID <= MaxGenJobs
             /\ Submit(InPoints, GetTaskTypeFromGenerationType(Type), bThreadCreated)
             /\ IF lastSubmit'.Result # -1
                THEN /\ ActiveAsyncJobs' = Append(ActiveAsyncJobs, lastSubmit'.Result)
                     /\ lastGen' = Call(1, lastSubmit'.Result, << >>)
                     /\ UNCHANGED <<CachedPoints, MeshSections>>
                ELSE Sync(1)
        ELSE /\ Sync(0)
             /\ UNCHANGED <<jobVars, now>>

\* the frame of a generator operation that starts no generation
NoGeneration == UNCHANGED <<CachedPoints, MeshSections>>

\* HandleTrackingLoss that also drops the geometry it hides
HandleTrackingLoss_ClearGeometry ==
    /\ IF bIsTrackingLost
       THEN /\ lastGen' = [op |-> "HandleTrackingLoss", bHandled |-> FALSE,
                           Requested |-> {}]
            /\ UNCHANGED <<bIsTrackingLost, PreLossGeometrySnapshot, bMeshVisible,
                           ActiveAsyncJobs, ActiveJobs, UnlockedAccesses, MeshSections>>
       ELSE /\ bIsTrackingLost' = TRUE
            /\ PreLossGeometrySnapshot' =
                   IF bUseSpatialAnchors /\ CachedPoints # << >> THEN CachedPoints
                   ELSE PreLossGeometrySnapshot
            /\ bMeshVisible' = IF bFreezeMeshOnTrackingLoss THEN FALSE ELSE bMeshVisible
            /\ MeshSections' = << >>
            /\ IF MeshGenerationManager
               THEN /\ ActiveJobs' = [id \in DOMAIN ActiveJobs |->
                                         IF id \in Range(ActiveAsyncJobs)
                                         THEN Cancelled(ActiveJobs[id]) ELSE ActiveJobs[id]]
                    /\ ActiveAsyncJobs' = << >>
                    /\ IF ActiveAsyncJobs # << >> THEN Logged(CancelJob_Accesses)
                       ELSE UNCHANGED UnlockedAccesses
               ELSE UNCHANGED <<ActiveJobs, ActiveAsyncJobs, UnlockedAccesses>>
            /\ lastGen' = [op |-> "HandleTrackingLoss", bHandled |-> TRUE,
                           Requested |-> IF MeshGenerationManager
                                         THEN Range(ActiveAsyncJobs) ELSE {}]
    /\ UNCHANGED <<notGenVars, now, NextJobID, CompletedJobs, MaxWorkerThreads,
                   ManagerLastCleanupTime, lastInfo, submitVars, lastResult,
                   GenerationType, genConfig, CachedPoints,
                   CurrentTrackingQuality, UpdateInterval>>

\* UProceduralGenerator::HandleTrackingLoss.  CancelJob is called for every id
\* of ActiveAsyncJobs (Requested) and acts on those still active.
HandleTrackingLoss ==
    /\ IF bIsTrackingLost
       THEN /\ lastGen' = [op |-> "HandleTrackingLoss", bHandled |-> FALSE,
                           Requested |-> {}]
            /\ UNCHANGED <<bIsTrackingLost, PreLossGeometrySnapshot, bMeshVisible,
                           ActiveAsyncJobs, ActiveJobs, UnlockedAccesses>>
       ELSE /\ bIsTrackingLost' = TRUE
            /\ PreLossGeometrySnapshot' =
                   IF bUseSpatialAnchors /\ CachedPoints # << >> THEN CachedPoints
                   ELSE PreLossGeometrySnapshot
            /\ bMeshVisible' = IF bFreezeMeshOnTrackingLoss THEN FALSE ELSE bMeshVisible
            /\ IF MeshGenerationManager
               THEN /\ ActiveJobs' = [id \in DOMAIN ActiveJobs |->
                                         IF id \in Range(ActiveAsyncJobs)
                                         THEN Cancelled(ActiveJobs[id]) ELSE ActiveJobs[id]]
                    /\ ActiveAsyncJobs' = << >>
                    /\ IF ActiveAsyncJobs # << >> THEN Logged(CancelJob_Accesses)
                       ELSE UNCHANGED UnlockedAccesses
               ELSE UNCHANGED <<ActiveJobs, ActiveAsyncJobs, UnlockedAccesses>>
            /\ lastGen' = [op |-> "HandleTrackingLoss", bHandled |-> TRUE,
                           Requested |-> IF MeshGenerationManager
                                         THEN Range(ActiveAsyncJobs) ELSE {}]
    /\ NoGeneration
    /\ UNCHANGED <<notGenVars, now, NextJobID, CompletedJobs, MaxWorkerThreads,
                   ManagerLastCleanupTime, lastInfo, submitVars, lastResult,
                   GenerationType, genConfig, CurrentTrackingQuality, UpdateInterval>>

\* HandleTrackingRecovery without the test of bIsTrackingLost at its head
HandleTrackingRecovery_NoGuard ==
    /\ bIsTrackingLost' = FALSE
    /\ bMeshVisible' = IF bFreezeMeshOnTrackingLoss THEN TRUE ELSE bMeshVisible
    /\ IF bAutoRecoverFromTrackingLoss /\ PreLossGeometrySnapshot # << >>
       THEN \E bThreadCreated \in BOOLEAN,
               Extracted \in MCTrianglesOf[PreLossGeometrySnapshot] :
                Generate("HandleTrackingRecovery", GenerationType, PreLossGeometrySnapshot,
                         bThreadCreated, Extracted)
       ELSE /\ lastGen' = [op |-> "HandleTrackingRecovery", bHandled |-> TRUE]
            /\ NoGeneration
            /\ UNCHANGED <<ActiveAsyncJobs, jobVars, now>>
    /\ UNCHANGED <<notGenVars, GenerationType, genConfig, PreLossGeometrySnapshot,
                   CurrentTrackingQuality, UpdateInterval>>

\* UProceduralGenerator::HandleTrackingRecovery; every branch of its recovery
\* regenerates from the snapshot once.  A call that passes the test at its
\* head broadcasts OnTrackingRecovery at its end (bHandled, or the record of
\* the regeneration).
HandleTrackingRecovery ==
    /\ IF ~bIsTrackingLost
       THEN /\ lastGen' = [op |-> "HandleTrackingRecovery", bHandled |-> FALSE]
            /\ NoGeneration
            /\ UNCHANGED <<bIsTrackingLost, bMeshVisible, ActiveAsyncJobs, jobVars, now>>
       ELSE /\ bIsTrackingLost' = FALSE
            /\ bMeshVisible' = IF bFreezeMeshOnTrackingLoss THEN TRUE ELSE bMeshVisible
            /\ IF bAutoRecoverFromTrackingLoss /\ PreLossGeometrySnapshot # << >>
               THEN \E bThreadCreated \in BOOLEAN,
                       Extracted \in MCTrianglesOf[PreLossGeometrySnapshot] :
                        Generate("HandleTrackingRecovery", GenerationType, PreLossGeometrySnapshot,
                                 bThreadCreated, Extracted)
               ELSE /\ lastGen' = [op |-> "HandleTrackingRecovery", bHandled |-> TRUE]
                    /\ NoGeneration
                    /\ UNCHANGED <<ActiveAsyncJobs, jobVars, now>>
    /\ UNCHANGED <<notGenVars, GenerationType, genConfig, PreLossGeometrySnapshot,
                   CurrentTrackingQuality, UpdateInterval>>

\* UProceduralGenerator::UpdateTrackingQuality(NewQuality); qualities in
\* hundredths, the interval in tenths of a second
UpdateTrackingQuality_Quality(NewQuality) ==
    LET OldQuality == CurrentTrackingQuality
        Quality == Clamp(NewQuality, 0, 100)
        bSignificant == (IF OldQuality >= Quality THEN OldQuality - Quality
                         ELSE Quality - OldQuality) > SignificantChange
    IN  /\ UpdateInterval <= MaxUpdateInterval
        /\ CurrentTrackingQuality' = Quality
        /\ UpdateInterval' =
               IF ~bSignificant THEN UpdateInterval
               ELSE IF Quality < TrackingQualityThreshold /\ ~bIsTrackingLost
               THEN IF bAutoUpdate
                    THEN Max2(UpdateInterval * 2, MinThrottledInterval)
                    ELSE UpdateInterval
               ELSE IF Quality >= TrackingQualityThreshold
                       /\ OldQuality < TrackingQualityThreshold
               THEN DefaultUpdateInterval
               ELSE UpdateInterval
        /\ lastGen' = [op |-> "UpdateTrackingQuality", OldQuality |-> OldQuality,
                       NewQuality |-> Quality, bBroadcast |-> bSignificant,
                       OldInterval |-> UpdateInterval]
        /\ NoGeneration
        /\ UNCHANGED <<notGenVars, jobVars, now, GenerationType, genConfig, ActiveAsyncJobs,
                       PreLossGeometrySnapshot, bMeshVisible, bIsTrackingLost>>

UpdateTrackingQuality ==
    \E NewQuality \in QualityInputs : UpdateTrackingQuality_Quality(NewQuality)

\* a generator that has begun play and whose owner has set bAutoUpdate
InitThrottle ==
    /\ StoreIdle
    /\ ReconIdle
    /\ JobsIdle
    /\ TrackingIdle
    /\ now = 0
    /\ GenerationType = "Mesh"
    /\ bEnableAsyncGeneration = TRUE
    /\ MeshGenerationManager = TRUE
    /\ AsyncGenerationThreshold = 10000
    /\ ActiveAsyncJobs = << >>
    /\ CachedPoints = << >>
    /\ PreLossGeometrySnapshot = << >>
    /\ MeshSections = << >>
    /\ bMeshVisible = TRUE
    /\ bIsTrackingLost = FALSE
    /\ CurrentTrackingQuality = 100
    /\ UpdateInterval = DefaultUpdateInterval
    /\ bAutoUpdate \in BOOLEAN
    /\ bFreezeMeshOnTrackingLoss \in BOOLEAN
    /\ bUseSpatialAnchors = TRUE
    /\ bAutoRecoverFromTrackingLoss = TRUE
    /\ MarchingCubesConfig = MCConfig
    /\ lastGen = None

NextThrottle ==
    \/ UpdateTrackingQuality
    \/ HandleTrackingLoss
    \/ HandleTrackingRecovery

SpecThrottle == InitThrottle /\ [][NextThrottle]_vars

\* C29: whenever the tracking quality rises from below the threshold to the
\* threshold or above, the update interval is back at its default of 0.1 s.
C29_RecoveryRestoresInterval ==
    [][(CurrentTrackingQuality < TrackingQualityThreshold
        /\ CurrentTrackingQuality' >= TrackingQualityThreshold)
       => UpdateInterval' = DefaultUpdateInterval]_vars

\* C30: whenever the tracking quality falls from the threshold or above to
\* below it, with auto update on and tracking not lost, the update interval
\* becomes exactly twice what it was.
C30_DropDoublesInterval ==
    [][(CurrentTrackingQuality >= TrackingQualityThreshold
        /\ CurrentTrackingQuality' < TrackingQualityThreshold
        /\ bAutoUpdate /\ ~bIsTrackingLost)
       => UpdateInterval' = 2 * UpdateInterval]_vars

\* a caller of the generator
GenerateFromBitmapPoints_Generator ==
    \E InPoints \in GenPoints, bThreadCreated \in BOOLEAN :
        \E Extracted \in MCTrianglesOf[InPoints] :
            /\ Generate("GenerateFromBitmapPoints", GenerationType, InPoints,
                        bThreadCreated, Extracted)
            /\ UNCHANGED <<notGenVars, GenerationType, genConfig, PreLossGeometrySnapshot,
                           bMeshVisible, bIsTrackingLost, CurrentTrackingQuality,
                           UpdateInterval>>

\* UProceduralGenerator::SetGenerationType, also with a value that is none of
\* the enumeration's
SetGenerationType ==
    \E NewType \in GenerationTypes \cup {"Unknown"}, bThreadCreated \in BOOLEAN :
        \E Extracted \in MCTrianglesOf[CachedPoints] :
            /\ GenerationType' = NewType
            /\ IF CachedPoints # << >>
               THEN Generate("SetGenerationType", NewType, CachedPoints,
                             bThreadCreated, Extracted)
               ELSE /\ lastGen' = [op |-> "SetGenerationType", bHandled |-> FALSE]
                    /\ NoGeneration
                    /\ UNCHANGED <<ActiveAsyncJobs, jobVars, now>>
            /\ UNCHANGED <<notGenVars, genConfig, PreLossGeometrySnapshot, bMeshVisible,
                           bIsTrackingLost, CurrentTrackingQuality, UpdateInterval>>

\* the owner writes the property bEnableAsyncGeneration
SetEnableAsyncGeneration ==
    /\ bEnableAsyncGeneration' = ~bEnableAsyncGeneration
    /\ lastGen' = [op |-> "SetEnableAsyncGeneration"]
    /\ NoGeneration
    /\ UNCHANGED <<notGenVars, jobVars, now, GenerationType, MeshGenerationManager,
                   AsyncGenerationThreshold, bAutoUpdate, bFreezeMeshOnTrackingLoss,
                   bUseSpatialAnchors, bAutoRecoverFromTrackingLoss, MarchingCubesConfig,
                   ActiveAsyncJobs,
                   PreLossGeometrySnapshot, bMeshVisible, bIsTrackingLost,
                   CurrentTrackingQuality, UpdateInterval>>

\* a caller of the manager submits a job whose task type is none of the
\* enumeration's
SubmitUnknownTaskType ==
    \E InPoints \in GenPoints, bThreadCreated \in BOOLEAN :
        /\ MeshGenerationManager
        /\ NextJobID <= MaxGenJobs
        /\ Submit(InPoints, "Unknown", bThreadCreated)
        /\ UNCHANGED notJobVars

\* the thresholds the owner gives the generator
Thresholds == {1, 3}

\* a generator that has begun play, with the properties as its owner set
\* them; the manager has handed out all ids but the last
InitGenerator ==
    /\ StoreIdle
    /\ ReconIdle
    /\ TrackingIdle
    /\ NextJobID = MaxGenJobs
    /\ ActiveJobs = << >>
    /\ CompletedJobs = << >>
    /\ MaxWorkerThreads = 1
    /\ ManagerLastCleanupTime = 0
    /\ lastInfo = None
    /\ lastSubmit = None
    /\ issuedIDs = << >>
    /\ lastResult = None
    /\ UnlockedAccesses = {}
    /\ now = 0
    /\ GenerationType = "Mesh"
    /\ bEnableAsyncGeneration \in BOOLEAN
    /\ MeshGenerationManager \in BOOLEAN
    /\ AsyncGenerationThreshold \in Thresholds
    /\ ActiveAsyncJobs = << >>
    /\ CachedPoints = << >>
    /\ PreLossGeometrySnapshot = << >>
    /\ MeshSections = << >>
    /\ bMeshVisible = TRUE
    /\ bIsTrackingLost = FALSE
    /\ CurrentTrackingQuality = 100
    /\ UpdateInterval = DefaultUpdateInterval
    /\ bAutoUpdate = TRUE
    /\ bFreezeMeshOnTrackingLoss = TRUE
    /\ bUseSpatialAnchors = TRUE
    /\ bAutoRecoverFromTrackingLoss = TRUE
    /\ MarchingCubesConfig = MCConfig
    /\ lastGen = None

NextGenerator ==
    \/ GenerateFromBitmapPoints_Generator
    \/ SetGenerationType
    \/ SetEnableAsyncGeneration
    \/ SubmitUnknownTaskType
    \/ \E id \in GenJobIDs : TaskInit(id)
    \/ \E id \in GenJobIDs : Run_Start(id)
    \/ \E id \in GenJobIDs : Run_GenerateBegin(id)
    \/ \E id \in GenJobIDs : Run_GenerateEnd(id)
    \/ \E id \in GenJobIDs : Run_Convert(id)
    \/ \E id \in GenJobIDs : Run_Progress90(id)
    \/ \E id \in GenJobIDs : Run_Finalize(id)
    \/ \E id \in GenJobIDs : Run_Progress100(id)
    \/ \E id \in GenJobIDs : Run_Notify(id)
    \/ \E id \in GenJobIDs : OnJobCompleted(id)

SpecGenerator == InitGenerator /\ [][NextGenerator]_vars

\* the operations that call GenerateFromBitmapPoints
GenerateOps == {"GenerateFromBitmapPoints", "SetGenerationType", "HandleTrackingRecovery"}

\* the last operation of the generator was a call of GenerateFromBitmapPoints
\* that ran on the caller's thread
SyncCall == "Inline" \in DOMAIN lastGen /\ lastGen.JobID = -1

\* C23: GenerateFromBitmapPoints(points) submits exactly one job, registers
\* it and runs nothing inline exactly when async generation is enabled, a
\* manager exists and points.Num() >= AsyncGenerationThreshold, unless that
\* submission is rejected with -1; in every other case, the rejection
\* included, it runs the algorithm of the generation type (none for a type
\* outside the enumeration) once on the caller's thread and registers no job.
C23_SyncAsyncDecision ==
    [][(lastGen' # lastGen /\ lastGen'.op \in GenerateOps /\ "Points" \in DOMAIN lastGen')
       => LET Call == lastGen'
              bQualifies == /\ bEnableAsyncGeneration
                            /\ MeshGenerationManager
                            /\ Len(Call.Points) >= AsyncGenerationThreshold
              New == DOMAIN ActiveJobs' \ DOMAIN ActiveJobs
              Selected == IF Call.Type \in GenerationTypes THEN <<Call.Type>> ELSE << >>
          IN  IF bQualifies /\ Call.JobID # -1
              THEN /\ Call.Submissions = 1
                   /\ New = {Call.JobID}
                   /\ ActiveJobs'[Call.JobID].Task.Points = Call.Points
                   /\ Call.Inline = << >>
                   /\ UNCHANGED <<MeshSections, CachedPoints>>
              ELSE /\ Call.Submissions = IF bQualifies THEN 1 ELSE 0
                   /\ Call.Inline = Selected
                   /\ ActiveJobs' = ActiveJobs
                   /\ CachedPoints' = Call.Points]_vars

\* a call with exactly AsyncGenerationThreshold points went to a job
C23_Witness ==
    /\ lastGen.op = "GenerateFromBitmapPoints"
    /\ Len(lastGen.Points) = AsyncGenerationThreshold
    /\ lastGen.JobID \in DOMAIN ActiveJobs
    /\ lastGen.Inline = << >>
    /\ lastGen.Submissions = 1

\* the inputs the taxonomy calls invalid, for a job
InvalidJob(Job) ==
    \/ Job.Task.TaskType = "Mesh" /\ Len(Job.Task.Points) < 3
    \/ Job.Task.TaskType = "MarchingCubes" /\ Job.Task.Points = << >>
    \/ Job.Task.TaskType \notin TaskTypes

\* a finished job without a triangle
ZeroTriangles(Job) ==
    /\ Job.bResultReady
    /\ Job.Result.Triangles = 0
    /\ Job.Result.TriangleCount = 0

\* C22 as stated: Mesh with fewer than 3 points, MarchingCubes with no
\* point and an unknown kind leave an empty mesh when run synchronously and
\* a finished job with zero triangles when run as a job, and the point store
\* stays as it was.
C22_InvalidInputGivesEmptyMesh ==
    /\ (SyncCall /\ (\/ lastGen.Type = "Mesh" /\ Len(lastGen.Points) < 3
                     \/ lastGen.Type = "MarchingCubes" /\ lastGen.Points = << >>
                     \/ lastGen.Type \notin GenerationTypes))
       => MeshSections = << >>
    /\ \A id \in DOMAIN CompletedJobs :
           InvalidJob(CompletedJobs[id]) => ZeroTriangles(CompletedJobs[id])
    /\ BitmapPoints = << >> /\ TotalPointCount = 0

\* C22, amended: synchronously, Mesh (and Surface) with fewer than 3 points
\* leaves an empty mesh, while MarchingCubes with no point and a generation
\* type outside the enumeration leave the mesh as it was; a submission
\* without points registers no job; a Mesh job with fewer than 3 points and
\* a job of an unknown task type finish as Failed with zero triangles; the
\* point store stays as it was.
C22_InvalidInputAddsNoTriangles ==
    /\ (SyncCall /\ lastGen.Type \in {"Mesh", "Surface"} /\ Len(lastGen.Points) < 3)
       => MeshSections = << >>
    /\ (SyncCall /\ (\/ lastGen.Type = "MarchingCubes" /\ lastGen.Points = << >>
                     \/ lastGen.Type \notin GenerationTypes))
       => MeshSections = lastGen.Before
    /\ \A id \in DOMAIN ActiveJobs : ActiveJobs[id].Task.Points # << >>
    /\ \A id \in DOMAIN CompletedJobs :
           /\ CompletedJobs[id].Task.Points # << >>
           /\ InvalidJob(CompletedJobs[id])
              => /\ ZeroTriangles(CompletedJobs[id])
                 /\ CompletedJobs[id].Info.Status = "Failed"
    /\ BitmapPoints = << >> /\ TotalPointCount = 0

\* a Mesh job with one point has failed, and then a synchronous
\* MarchingCubes run without points has left a mesh with triangles alone
C22_Witness ==
    /\ \E id \in DOMAIN CompletedJobs :
           /\ CompletedJobs[id].Task.TaskType = "Mesh"
           /\ Len(CompletedJobs[id].Task.Points) = 1
           /\ CompletedJobs[id].Info.Status = "Failed"
    /\ SyncCall
    /\ lastGen.Type = "MarchingCubes"
    /\ lastGen.Points = << >>
    /\ \E i \in DOMAIN MeshSections : MeshSections[i] > 0

(***************************************************************************)
(* The grid specification: marching cubes requested through                *)
(* GenerateMarchingCubes and through GenerateFromBitmapPoints.  Lengths    *)
(* are in world units.                                                      *)
(***************************************************************************)
DefaultPadding == 100
MinGridResolution == 10
MaxGridResolution == 200

\* the configuration as the constructors of FMarchingCubesConfig and of
\* UProceduralGenerator leave it; IsoValue is 0.5 in units of 1/Radius^2 = 1/400
ConstructedMCConfig ==
    [VoxelSize |-> 10, IsoValue |-> 200, GridMin |-> <<-500, -500, -500>>,
     GridMax |-> <<500, 500, 500>>, GridResolution |-> <<50, 50, 50>>,
     bSmoothNormals |-> TRUE]

\* the least and the greatest of a set of numbers
LeastOf(S) == CHOOSE x \in S : \A y \in S : x <= y

GreatestOf(S) == CHOOSE x \in S : \A y \in S : x >= y

\* UProceduralGenerator::UpdateGridBoundsFromPoints: Config with the bounds and
\* the resolution fitted to pts
UpdateGridBoundsFromPoints(pts, Padding, Config) ==
    LET Coord(a) == {pts[i].Position[a] : i \in DOMAIN pts}
        MinBounds == [a \in 1..3 |-> LeastOf(Coord(a)) - Padding]
        MaxBounds == [a \in 1..3 |-> GreatestOf(Coord(a)) + Padding]
        GridSize == [a \in 1..3 |-> MaxBounds[a] - MinBounds[a]]
        OptimalResolution ==
            [a \in 1..3 |-> Clamp(CeilDiv(GridSize[a], Config.VoxelSize),
                                  MinGridResolution, MaxGridResolution)]
    IN  IF pts = << >> THEN Config
        ELSE [Config EXCEPT !.GridMin = MinBounds, !.GridMax = MaxBounds,
                            !.GridResolution = OptimalResolution]

\* what the extraction returns on a grid of the generator's configuration:
\* no triangle, a triangle, or a fault
GridExtractions ==
    {[bFault |-> FALSE, Num |-> 0], [bFault |-> FALSE, Num |-> 1],
     [bFault |-> TRUE, Num |-> 0]}

\* UProceduralGenerator::GenerateMarchingCubes: fits the grid to the points
\* and runs GenerateMarchingCubesInternal
GenerateMarchingCubes ==
    \E InPoints \in GenPoints, Extracted \in GridExtractions :
        LET Config == UpdateGridBoundsFromPoints(InPoints, DefaultPadding, MarchingCubesConfig)
        IN  /\ MarchingCubesConfig' = Config
            /\ MeshSections' = SyncSections("MarchingCubes", InPoints, Extracted, MeshSections)
            /\ lastGen' = [op |-> "GenerateMarchingCubes", Points |-> InPoints,
                           Type |-> "MarchingCubes", Config |-> Config]
            /\ UNCHANGED <<notGenVars, jobVars, now, GenerationType, bEnableAsyncGeneration,
                           MeshGenerationManager, AsyncGenerationThreshold, bAutoUpdate,
                           bFreezeMeshOnTrackingLoss, bUseSpatialAnchors,
                           bAutoRecoverFromTrackingLoss, ActiveAsyncJobs, CachedPoints,
                           PreLossGeometrySnapshot, bMeshVisible, bIsTrackingLost,
                           CurrentTrackingQuality, UpdateInterval>>

\* a caller of GenerateFromBitmapPoints on a generator of marching cubes
GenerateFromBitmapPoints_Grid ==
    \E InPoints \in GenPoints, bThreadCreated \in BOOLEAN, Extracted \in GridExtractions :
        /\ Generate("GenerateFromBitmapPoints", GenerationType, InPoints,
                    bThreadCreated, Extracted)
        /\ UNCHANGED <<notGenVars, GenerationType, genConfig, PreLossGeometrySnapshot,
                       bMeshVisible, bIsTrackingLost, CurrentTrackingQuality,
                       UpdateInterval>>

\* a generator of marching cubes that has begun play, with the configuration
\* of its constructor or the one its owner set
InitGrid ==
    /\ StoreIdle
    /\ ReconIdle
    /\ TrackingIdle
    /\ NextJobID = MaxGenJobs
    /\ ActiveJobs = << >>
    /\ CompletedJobs = << >>
    /\ MaxWorkerThreads = 1
    /\ ManagerLastCleanupTime = 0
    /\ lastInfo = None
    /\ lastSubmit = None
    /\ issuedIDs = << >>
    /\ lastResult = None
    /\ UnlockedAccesses = {}
    /\ now = 0
    /\ GenerationType = "MarchingCubes"
    /\ bEnableAsyncGeneration \in BOOLEAN
    /\ MeshGenerationManager \in BOOLEAN
    /\ AsyncGenerationThreshold \in Thresholds
    /\ ActiveAsyncJobs = << >>
    /\ CachedPoints = << >>
    /\ PreLossGeometrySnapshot = << >>
    /\ MeshSections = << >>
    /\ bMeshVisible = TRUE
    /\ bIsTrackingLost = FALSE
    /\ CurrentTrackingQuality = 100
    /\ UpdateInterval = DefaultUpdateInterval
    /\ bAutoUpdate = TRUE
    /\ bFreezeMeshOnTrackingLoss = TRUE
    /\ bUseSpatialAnchors = TRUE
    /\ bAutoRecoverFromTrackingLoss = TRUE
    /\ MarchingCubesConfig \in {ConstructedMCConfig, MCConfig}
    /\ lastGen = None

NextGrid ==
    \/ GenerateMarchingCubes
    \/ GenerateFromBitmapPoints_Grid

SpecGrid == InitGrid /\ [][NextGrid]_vars

\* C34: whenever marching cubes runs on a non-empty point list, through
\* GenerateMarchingCubes, through GenerateFromBitmapPoints or in a job, the
\* configuration of its density grid has the points' extents widened by the
\* padding as bounds and, on every axis, ceil(extent / VoxelSize) clamped to
\* [10, 200] as resolution.
C34_GridFittedOnEveryPath ==
    (/\ lastGen # None
     /\ "Config" \in DOMAIN lastGen
     /\ lastGen.Type = "MarchingCubes"
     /\ lastGen.Points # << >>)
    => lastGen.Config =
           UpdateGridBoundsFromPoints(lastGen.Points, DefaultPadding, lastGen.Config)

\* a generator of point clouds that hands every request with a point to a job
InitTrackingLoss ==
    /\ StoreIdle
    /\ ReconIdle
    /\ JobsIdle
    /\ TrackingIdle
    /\ now = 0
    /\ GenerationType = "PointCloud"
    /\ bEnableAsyncGeneration = TRUE
    /\ MeshGenerationManager = TRUE
    /\ AsyncGenerationThreshold = 1
    /\ ActiveAsyncJobs = << >>
    /\ CachedPoints = << >>
    /\ PreLossGeometrySnapshot = << >>
    /\ MeshSections = << >>
    /\ bMeshVisible = TRUE
    /\ bIsTrackingLost = FALSE
    /\ CurrentTrackingQuality = 100
    /\ UpdateInterval = DefaultUpdateInterval
    /\ bAutoUpdate = TRUE
    /\ bFreezeMeshOnTrackingLoss \in BOOLEAN
    /\ bUseSpatialAnchors = TRUE
    /\ bAutoRecoverFromTrackingLoss = TRUE
    /\ MarchingCubesConfig = MCConfig
    /\ lastGen = None

NextTrackingLoss ==
    \/ GenerateFromBitmapPoints_Generator
    \/ HandleTrackingLoss
    \/ HandleTrackingRecovery
    \/ \E id \in GenJobIDs : TaskInit(id)
    \/ \E id \in GenJobIDs : Run_Start(id)
    \/ \E id \in GenJobIDs : Run_GenerateBegin(id)
    \/ \E id \in GenJobIDs : Run_GenerateEnd(id)
    \/ \E id \in GenJobIDs : Run_Progress90(id)
    \/ \E id \in GenJobIDs : Run_Finalize(id)
    \/ \E id \in GenJobIDs : Run_Progress100(id)
    \/ \E id \in GenJobIDs : Run_Notify(id)
    \/ \E id \in GenJobIDs : OnJobCompleted(id)

SpecTrackingLoss == InitTrackingLoss /\ [][NextTrackingLoss]_vars

\* C28: when HandleTrackingLoss runs while tracking is not lost, CancelJob is
\* called for every id of ActiveAsyncJobs, every one of those jobs that is
\* still active has its cancellation flag set, the list is empty afterwards,
\* and the mesh is at most hidden: MeshSections and CachedPoints are
\* unchanged.
C28_TrackingLossCancelsAndHides ==
    [][(lastGen'.op = "HandleTrackingLoss" /\ HandleTrackingLoss /\ ~bIsTrackingLost)
       => /\ lastGen'.Requested = Range(ActiveAsyncJobs)
          /\ \A id \in Range(ActiveAsyncJobs) \cap DOMAIN ActiveJobs :
                 /\ ActiveJobs'[id].Task.bShouldCancel
                 /\ ActiveJobs'[id].Info.Status = "Cancelled"
          /\ ActiveAsyncJobs' = << >>
          /\ bMeshVisible' = (bMeshVisible /\ ~bFreezeMeshOnTrackingLoss)
          /\ UNCHANGED <<MeshSections, CachedPoints>>]_vars

\* tracking was lost with two jobs in the list, one of them still active,
\* and a mesh with triangles that is now hidden
C28_Witness ==
    /\ lastGen.op = "HandleTrackingLoss"
    /\ lastGen.bHandled
    /\ Cardinality(lastGen.Requested) = 2
    /\ \E id \in lastGen.Requested : id \in DOMAIN ActiveJobs /\ ActiveJobs[id].Task.bShouldCancel
    /\ ActiveAsyncJobs = << >>
    /\ ~bMeshVisible
    /\ \E i \in DOMAIN MeshSections : MeshSections[i] > 0

\* the step was a call of HandleTrackingLoss that broadcast OnTrackingLoss
OnTrackingLossFired ==
    /\ HandleTrackingLoss
    /\ lastGen'.op = "HandleTrackingLoss"
    /\ lastGen'.bHandled

\* the step was a call of HandleTrackingRecovery that broadcast
\* OnTrackingRecovery
OnTrackingRecoveryFired ==
    /\ HandleTrackingRecovery
    /\ lastGen'.op = "HandleTrackingRecovery"
    /\ "bHandled" \in DOMAIN lastGen' => lastGen'.bHandled

\* the step changed nothing of the generator, the jobs and the rest but the
\* record of the last call
NothingChanged ==
    UNCHANGED <<storeVars, queryVars, reconVars, jobVars, trackVars, GenerationType,
                genConfig, ActiveAsyncJobs, CachedPoints, PreLossGeometrySnapshot,
                MeshSections, bMeshVisible, bIsTrackingLost, CurrentTrackingQuality,
                UpdateInterval>>

\* C39: the handling of loss and recovery is idempotent and alternating:
\* HandleTrackingLoss while tracking is lost and HandleTrackingRecovery while
\* it is not change no state and fire no event; OnTrackingLoss fires only in
\* a step from not lost to lost, OnTrackingRecovery only in a step from lost
\* to not lost, and no other step changes bIsTrackingLost, so that the two
\* events alternate strictly, beginning with a loss.
C39_LossRecoveryAlternate ==
    [][/\ (HandleTrackingLoss /\ lastGen'.op = "HandleTrackingLoss" /\ bIsTrackingLost)
          => (~OnTrackingLossFired /\ NothingChanged)
       /\ (HandleTrackingRecovery /\ lastGen'.op = "HandleTrackingRecovery"
           /\ ~bIsTrackingLost)
          => (~OnTrackingRecoveryFired /\ NothingChanged)
       /\ OnTrackingLossFired => (~bIsTrackingLost /\ bIsTrackingLost')
       /\ OnTrackingRecoveryFired => (bIsTrackingLost /\ ~bIsTrackingLost')
       /\ (bIsTrackingLost' # bIsTrackingLost)
          => (OnTrackingLossFired \/ OnTrackingRecoveryFired)]_vars

\* after a loss and a recovery that regenerated the mesh, a second call of
\* HandleTrackingRecovery was ignored
C39_Witness ==
    /\ lastGen.op = "HandleTrackingRecovery"
    /\ "bHandled" \in DOMAIN lastGen
    /\ ~lastGen.bHandled
    /\ ~bIsTrackingLost
    /\ PreLossGeometrySnapshot # << >>
    /\ bMeshVisible

\* C38: reconstruction is paused while tracking is lost: in every step
\* between HandleTrackingLoss and the next HandleTrackingRecovery, whatever
\* point updates arrive, the generator's list of active jobs stays empty, no
\* job is added to the manager's registry, and the hidden mesh is not
\* modified.
C38_NoReconstructionWhileLost ==
    [][(bIsTrackingLost /\ bIsTrackingLost')
       => /\ ActiveAsyncJobs' = << >>
          /\ DOMAIN ActiveJobs' \subseteq DOMAIN ActiveJobs
          /\ MeshSections' = MeshSections]_vars

(***************************************************************************)
(* The registry of jobs under queries for any id, with the clock: what the *)
(* queries answer for an id without a job, and how long a finished job     *)
(* stays.                                                                  *)
(***************************************************************************)
\* the ids the queries are made with: 1 is never handed out
QueryIDs == 1..(MaxSubmissions + 1)

\* UProceduralGenerator::CancelAsyncGeneration, with the manager's CancelJob,
\* which looks the id up among the active jobs only
CancelAsyncGeneration(id) ==
    LET bCancelled == MeshGenerationManager /\ id \in DOMAIN ActiveJobs
    IN  /\ ActiveJobs' = IF bCancelled
                         THEN [ActiveJobs EXCEPT ![id] = Cancelled(ActiveJobs[id])]
                         ELSE ActiveJobs
        /\ ActiveAsyncJobs' = IF bCancelled
                              THEN SelectSeq(ActiveAsyncJobs, LAMBDA j : j # id)
                              ELSE ActiveAsyncJobs
        /\ IF MeshGenerationManager THEN Logged(CancelJob_Accesses)
           ELSE UNCHANGED UnlockedAccesses
        /\ lastGen' = [op |-> "CancelAsyncGeneration", JobID |-> id,
                       bCancelled |-> bCancelled]
        /\ NoGeneration
        /\ UNCHANGED <<notGenVars, now, NextJobID, CompletedJobs, MaxWorkerThreads,
                       ManagerLastCleanupTime, lastInfo, submitVars, lastResult,
                       GenerationType, genConfig, PreLossGeometrySnapshot, bMeshVisible,
                       bIsTrackingLost, CurrentTrackingQuality, UpdateInterval>>

\* GetAsyncGenerationProgress that takes a job that is gone for a finished one
GetAsyncGenerationProgress_GoneIsDone(id) ==
    /\ IF MeshGenerationManager
       THEN /\ GetJobInfo_Manager(id)
            /\ lastGen' = [op |-> "GetAsyncGenerationProgress", JobID |-> id,
                           Progress |-> IF lastInfo'.bFound THEN lastInfo'.Progress ELSE 100]
       ELSE /\ lastGen' = [op |-> "GetAsyncGenerationProgress", JobID |-> id, Progress |-> 0]
            /\ UNCHANGED <<jobVars, now>>
    /\ NoGeneration
    /\ UNCHANGED <<notGenVars, GenerationType, genConfig, ActiveAsyncJobs,
                   PreLossGeometrySnapshot, bMeshVisible, bIsTrackingLost,
                   CurrentTrackingQuality, UpdateInterval>>

\* UProceduralGenerator::GetAsyncGenerationProgress, with the manager's
\* GetJobInfo; the progress in percent
GetAsyncGenerationProgress(id) ==
    /\ IF MeshGenerationManager
       THEN /\ GetJobInfo_Manager(id)
            /\ lastGen' = [op |-> "GetAsyncGenerationProgress", JobID |-> id,
                           Progress |-> IF lastInfo'.bFound THEN lastInfo'.Progress ELSE 0]
       ELSE /\ lastGen' = [op |-> "GetAsyncGenerationProgress", JobID |-> id, Progress |-> 0]
            /\ UNCHANGED <<jobVars, now>>
    /\ NoGeneration
    /\ UNCHANGED <<notGenVars, GenerationType, genConfig, ActiveAsyncJobs,
                   PreLossGeometrySnapshot, bMeshVisible, bIsTrackingLost,
                   CurrentTrackingQuality, UpdateInterval>>

\* a caller that submits the next job when none is active, and asks about
\* the ids that have no active job
NextRegistry ==
    \/ ActiveJobs = << >> /\ SubmitPointCloudJob
    \/ \E id \in SubmitIDs : TaskInit(id)
    \/ \E id \in SubmitIDs : Run_Start(id)
    \/ \E id \in SubmitIDs : Run_GenerateBegin(id)
    \/ \E id \in SubmitIDs : Run_GenerateEnd(id)
    \/ \E id \in SubmitIDs : Run_Progress90(id)
    \/ \E id \in SubmitIDs : Run_Finalize(id)
    \/ \E id \in SubmitIDs : Run_Progress100(id)
    \/ \E id \in SubmitIDs : Run_Notify(id)
    \/ \E id \in SubmitIDs : OnJobCompleted(id)
    \/ \E id \in QueryIDs \ DOMAIN ActiveJobs : GetJobInfo(id)
    \/ \E id \in QueryIDs \ DOMAIN ActiveJobs : GetJobResult(id)
    \/ \E id \in QueryIDs \ DOMAIN ActiveJobs : CancelAsyncGeneration(id)
    \/ \E id \in QueryIDs \ DOMAIN ActiveJobs : GetAsyncGenerationProgress(id)
    \/ JobsAdvanceTime

SpecRegistry == InitJobs /\ [][NextRegistry]_vars

\* the worker threads run, the game thread runs the queued callbacks, and
\* time passes
SpecRegistryFair ==
    /\ SpecRegistry
    /\ \A id \in SubmitIDs : WF_vars(WorkerStep(id))
    /\ \A id \in SubmitIDs : WF_vars(OnJobCompleted(id))
    /\ WF_vars(JobsAdvanceTime)

\* C21: a query about an id that has no job (never issued, or purged)
\* reports that: GetJobInfo, GetJobResult and CancelJob (through
\* CancelAsyncGeneration) return false, GetAsyncGenerationProgress returns
\* 0, and the registry and the generator's list of jobs are unchanged.
C21_UnknownJobIdNotFound ==
    [][\A id \in QueryIDs :
           GetJob(id) = None
           => /\ GetJobInfo(id)
                 => /\ ~lastInfo'.bFound
                    /\ UNCHANGED <<NextJobID, ActiveJobs, CompletedJobs, ActiveAsyncJobs>>
              /\ GetJobResult(id)
                 => /\ ~lastResult'.bReturned
                    /\ UNCHANGED <<NextJobID, ActiveJobs, CompletedJobs, ActiveAsyncJobs>>
              /\ CancelAsyncGeneration(id)
                 => /\ ~lastGen'.bCancelled
                    /\ UNCHANGED <<NextJobID, ActiveJobs, CompletedJobs, ActiveAsyncJobs>>
              /\ GetAsyncGenerationProgress(id)
                 => /\ lastGen'.Progress = 0
                    /\ UNCHANGED <<NextJobID, ActiveJobs, CompletedJobs, ActiveAsyncJobs>>]_vars

\* the progress of a job that had been issued and purged was asked for
C21_Witness ==
    /\ lastGen.op = "GetAsyncGenerationProgress"
    /\ lastGen.JobID \in Range(issuedIDs)
    /\ GetJob(lastGen.JobID) = None
    /\ lastInfo.JobID = lastGen.JobID
    /\ ~lastInfo.bFound
    /\ lastGen.Progress = 0

\* C24: a job that finishes enters the completed jobs, leaves them only when
\* more than AutoCleanupDelaySeconds have passed since its completion time,
\* and until that much time has passed GetJobInfo and GetJobResult for its
\* id succeed.
C24_FinishedJobRetained ==
    [][/\ \A id \in DOMAIN ActiveJobs :
              OnJobCompleted(id) => id \in DOMAIN CompletedJobs'
       /\ \A id \in DOMAIN CompletedJobs :
              /\ id \notin DOMAIN CompletedJobs'
                 => now' - CompletedJobs[id].Info.CompletionTime > AutoCleanupDelaySeconds
              /\ now - CompletedJobs[id].Info.CompletionTime <= AutoCleanupDelaySeconds
                 => /\ GetJobInfo(id) => lastInfo'.bFound
                    /\ GetJobResult(id)
                       => lastResult'.bReturned
                          /\ lastResult'.OutResult = CompletedJobs[id].Result]_vars

\* one job was purged after its grace period, another is retained and its
\* result was handed out
C24_Witness ==
    /\ \E id \in Range(issuedIDs) : GetJob(id) = None
    /\ \E id \in DOMAIN CompletedJobs :
           /\ lastResult.op = "GetJobResult"
           /\ lastResult.JobID = id
           /\ lastResult.bReturned
           /\ now - CompletedJobs[id].Info.CompletionTime <= AutoCleanupDelaySeconds

\* C25: a completed job whose grace period of AutoCleanupDelaySeconds has
\* elapsed leaves the completed jobs at some time, whether or not another
\* job is submitted or completes.
C25_FinishedJobEventuallyPurged ==
    \A id \in SubmitIDs :
        (/\ id \in DOMAIN CompletedJobs
         /\ now - CompletedJobs[id].Info.CompletionTime > AutoCleanupDelaySeconds)
        ~> (id \notin DOMAIN CompletedJobs)

====
